---------------------------- MODULE Spec2Model ----------------------------
(***************************************************************************)
(* A model of the JSON-RPC endpoint runtime (src/src/endpoint/endpoint.cpp)*)
(* over the stream transports (src/src/transport/pipe_transport.cpp and    *)
(* socket_transport.cpp).                                                  *)
(*                                                                         *)
(* Execution model.  Every coroutine is cut at its co_await points.  Work  *)
(* posted to endpoint_strand_ is kept in the FIFO `strand`; the message    *)
(* loop, which is spawned on that strand, runs one segment per strand      *)
(* task.  The bodies of the transport operations run on the transport's    *)
(* own strand and are atomic.  Atomics (is_running_, next_request_id_) are *)
(* read and written in steps of their own.                                 *)
(*                                                                         *)
(* message_loop_ is the awaitable returned by                              *)
(* asio::co_spawn(..., asio::use_awaitable).  An asio awaitable is lazy    *)
(* (its frame starts suspended), so the spawn is initiated by the          *)
(* co_await of message_loop_ in WaitForShutdown or Shutdown, not by        *)
(* StartMessageProcessing.                                                 *)
(***************************************************************************)
EXTENDS Integers, Sequences, FiniteSets, TLC

\* ------------------------------------------------------------- bounds
\* Number of SendMethodCall / SendNotification invocations (one per caller).
NumCallers == 2
\* Number of responses the peer writes (duplicates included).
MaxResponses == 2
\* Number of Start() calls that find is_running_ false.
MaxStarts == 1
\* Number of start/stop cycles of one endpoint.
MaxCycles == 3
\* Length of the payloads framed: every text up to MaxPayload bytes, and
\* texts of LongLen bytes; number of messages in one stream.
MaxPayload == 3
LongLen == 10
MaxMessages == 2
\* The header lines of a header block that need not be well formed.
MaxHeaderLines == 2
\* Number of write units of the longest message of the transport scenario.
MaxChunks == 2

\* Each caller invokes SendMethodCall or SendNotification once.  Callers are
\* interchangeable, so caller c + 1 is let in only after caller c.
Callers == 1..NumCallers
\* Elements of a batch request, integer request ids of inbound requests, and
\* the method names the peer uses.
MaxBatch == 2
MaxId == 2
\* Texts the peer sends to a serving endpoint.
MaxInbound == 2
Methods == {"sum", "log"}
Kinds == {"pipe", "socket"}

VARIABLES
  \* --- transport (PipeTransport / SocketTransport)
  kind,            \* which concrete transport the endpoint owns
  is_started,      \* is_started_
  is_closed,       \* is_closed_
  is_connected,    \* is_connected_
  socket_open,     \* socket_.is_open()
  peer_gone,       \* the peer has reset the connection: writes fail from now on
  send_queue,      \* PipeTransport::send_queue_
  sending,         \* PipeTransport::sending_
  cur,             \* the message SendMessageLoop is writing, and the chunks sent
  sock_write,      \* per writer: the async_write in flight in SocketTransport
  wire,            \* the chunks written to the socket, in order
  accepted,        \* the messages SendMessage accepted, in order (history)
  inbox,           \* bytes the peer wrote towards this endpoint, not yet read
  \* --- endpoint (RpcEndpoint)
  is_running,      \* is_running_
  pending_requests,\* pending_requests_: set of [id, req]
  next_request_id, \* next_request_id_
  message_loop,    \* message_loop_.valid()
  strand,          \* endpoint_strand_: FIFO of posted tasks
  loop_pc,         \* position of ProcessMessagesLoop
  loop_msg,        \* the message the loop is handling
  loop_found,      \* HandleResponse: `found`/`request` set by the posted lookup
  pr,              \* the PendingRequest object of each caller
  \* --- coroutines of the users of the endpoint
  pc,              \* per caller: position in SendMethodCall / SendNotification
  id_of,           \* per caller: the request id it obtained
  result,          \* per caller: what the call returned
  st_pc,           \* Start() in flight
  sd_pc,           \* Shutdown() in flight
  w_pc,            \* WaitForShutdown() in flight
  \* --- history
  starts,          \* Start() calls so far that found is_running_ false
  phase,           \* "fresh" until the first Start() that found is_running_
                   \* false, "started" until the first Shutdown() that found
                   \* it true, then "shutdown", and "restarted" once a later
                   \* Start() has set is_running_ again
  st_res,          \* what the last Start() returned
  resolutions,     \* per caller: SetResult calls made on its PendingRequest
  cancelled,       \* callers whose awaited entry Shutdown cancelled
  responses,       \* number of responses the peer has written
  \* --- dispatcher (Dispatcher)
  handlers,        \* handlers_: per method name the registered handler
  request_str,     \* the argument of the DispatchRequest call
  reply,           \* what that DispatchRequest call returned
  served,          \* HandleMessage calls so far: message, reply, send (history)
  inbound,         \* number of messages the peer has sent (history)
  \* --- framing (MessageFramer, FramedPipeTransport)
  payloads,        \* the messages the sender frames, in order
  stream,          \* the framed bytes not yet delivered to the receiver
  buffer,          \* the receiver's buffer
  framer,          \* header_complete_, expected_length_, header_size_
  last,            \* what the last TryDeframe call returned
  received,        \* the messages the receiver has obtained, in order
  rx_pc,           \* position of the receiver
  \* --- Request::FromJson called on its own
  parsed,          \* what the Request::FromJson call returned
  \* --- transport Start() followed step by step
  connect_pc       \* position of Start(): idle, or awaiting connect/accept

tvars == <<kind, is_started, is_closed, is_connected, socket_open, peer_gone,
           send_queue, sending, cur, sock_write, wire, accepted, inbox>>
evars == <<is_running, pending_requests, next_request_id, message_loop,
           strand, loop_pc, loop_msg, loop_found, pr>>
uvars == <<pc, id_of, result, st_pc, sd_pc, w_pc>>
hvars == <<starts, phase, st_res, resolutions, cancelled, responses>>
fvars == <<payloads, stream, buffer, framer, last, received, rx_pc, parsed,
           connect_pc>>
dvars == <<handlers, request_str, reply, served, inbound, fvars>>
vars == <<tvars, evars, uvars, hvars, dvars>>

\* ------------------------------------------------------------- values
NoMsg == [src |-> -1, id |-> -1, len |-> 0]
\* A request or notification written by caller s (id -1: a notification).
Msg(s, id, len) == [src |-> s, id |-> id, len |-> len]
NoCur == [m |-> NoMsg, sent |-> 0]

NoRes == [kind |-> "none", id |-> -1, n |-> 0, msg |-> ""]
\* A response text as the message loop reads it: `kind` is the member it
\* carries ("result" or "error"), id_t the JSON type of its "id" member, id
\* the integer id, value the JSON value under "result", msg the "message" of
\* its error object; valid tells whether Response's validation accepts it.
ResponseText(k, id_t, id, n, msg, value, valid) ==
  [kind |-> k, id |-> id, n |-> n, msg |-> msg, id_t |-> id_t,
   value |-> value, valid |-> valid]
\* The n-th response of the peer, carrying request id `id`.
Resp(id, n) == ResponseText("result", "integer", id, n, "", "value", TRUE)
\* A text of the peer that is not a response: a request, a batch, or no JSON.
Text(body) == [kind |-> "text", id |-> -1, n |-> 0, msg |-> "", body |-> body]
\* Cancel delivering an ordinary result in place of the error object.
CancelAsResult(code, message) ==
  [kind |-> "result", id |-> -1, n |-> code, msg |-> message]

\* PendingRequest::Cancel's synthetic error object.
CancelError(code, message) ==
  [kind |-> "error", id |-> -1, n |-> code, msg |-> message]
Ret(k, id, n, msg) == [kind |-> k, id |-> id, n |-> n, msg |-> msg]

Task(t, a, v) == [t |-> t, a |-> a, v |-> v]

\* The requests the peer has received in full.
Received ==
  {w.m : w \in {wire[i] : i \in 1..Len(wire)}} \cap
  {m \in {wire[i].m : i \in 1..Len(wire)} :
     \A k \in 1..m.len : \E i \in 1..Len(wire) : wire[i] = [m |-> m, k |-> k]}


\* ------------------------------------------------------------- transport
\* A SendMessage without the state checks.
SendMessageUnchecked == "ok"

\* SendMessage / ReceiveMessage: the state checks made on the transport strand.
SendMessageCheck ==
  IF is_closed THEN "closed"
  ELSE IF ~is_started THEN "not_started"
  ELSE IF ~socket_open THEN "not_open"
  ELSE "ok"

ReceiveMessageCheck ==
  IF is_closed THEN "closed"
  ELSE IF ~is_started THEN "not_started"
  ELSE IF ~socket_open THEN "not_open"
  ELSE "ok"

\* A Start() without the state checks.
TransportStartUnchecked == "connect"

\* Transport Start(): rejected when started or closed, else connect/accept.
TransportStartCheck ==
  IF is_started THEN "already_started"
  ELSE IF is_closed THEN "closed"
  ELSE "connect"

\* An async_write on the socket succeeds while the connection is up.
WriteSucceeds == socket_open /\ ~peer_gone

\* Start(): the body after the strand post; connected tells whether
\* Connect()/BindAndListen() succeeded.
TransportStart(connected) ==
  /\ IF TransportStartCheck = "connect" /\ connected
       THEN /\ is_connected' = TRUE
            /\ socket_open' = TRUE
            /\ is_started' = TRUE
       ELSE UNCHANGED <<is_connected, socket_open, is_started>>
  /\ UNCHANGED <<kind, is_closed, peer_gone, send_queue, sending, cur,
                 sock_write, wire, accepted, inbox>>

TransportStartOk(connected) == TransportStartCheck = "connect" /\ connected

\* A Close() that leaves the socket open.
TransportCloseKeepsSocket ==
  /\ is_closed' = TRUE
  /\ is_connected' = FALSE
  /\ send_queue' = <<>>
  /\ UNCHANGED <<kind, is_started, socket_open, peer_gone, sending, cur,
                 sock_write, wire, accepted, inbox>>

\* A Close() that reopens a closed transport.
TransportCloseReopens ==
  /\ is_closed' = ~is_closed
  /\ is_connected' = FALSE
  /\ send_queue' = <<>>
  /\ socket_open' = FALSE
  /\ UNCHANGED <<kind, is_started, peer_gone, sending, cur, sock_write, wire,
                 accepted, inbox>>

\* Close(): idempotent; closes the socket, which aborts the I/O in flight.
TransportClose ==
  /\ IF is_closed
       THEN UNCHANGED <<is_closed, is_connected, send_queue, socket_open>>
       ELSE /\ is_closed' = TRUE
            /\ is_connected' = FALSE
            /\ send_queue' = <<>>
            /\ socket_open' = FALSE
  /\ UNCHANGED <<kind, is_started, peer_gone, sending, cur, sock_write, wire,
                 accepted, inbox>>

\* CloseNow(): the flags are set, the queue of the pipe transport cleared and
\* the socket closed when it is open, whatever the state.
TransportCloseNow ==
  /\ is_closed' = TRUE
  /\ is_connected' = FALSE
  /\ send_queue' = <<>>
  /\ socket_open' = FALSE
  /\ UNCHANGED <<kind, is_started, peer_gone, sending, cur, sock_write, wire,
                 accepted, inbox>>

\* SendMessageLoop: `while (!send_queue_.empty())` and the pop, or the exit.
PipeLoopTake(q) ==
  IF q = <<>>
    THEN /\ cur' = NoCur
         /\ send_queue' = q
         /\ sending' = FALSE
    ELSE /\ cur' = [m |-> Head(q), sent |-> 0]
         /\ send_queue' = Tail(q)
         /\ sending' = TRUE

\* PipeTransport::SendMessage, accepted: queue the message and, when no
\* SendMessageLoop is active, spawn one, which takes the message at once.
PipeSendMessage(m) ==
  /\ IF sending
       THEN /\ send_queue' = Append(send_queue, m)
            /\ UNCHANGED <<sending, cur>>
       ELSE PipeLoopTake(Append(send_queue, m))
  /\ accepted' = Append(accepted, m)
  /\ UNCHANGED <<kind, is_started, is_closed, is_connected, socket_open,
                 peer_gone, sock_write, wire, inbox>>

\* SendMessageLoop: one async_write of a chunk completes.  On an error the
\* message is abandoned (break) and the loop goes on with the next one.
PipeLoopWrite ==
  /\ kind = "pipe"
  /\ cur # NoCur
  /\ IF WriteSucceeds
       THEN /\ wire' = Append(wire, [m |-> cur.m, k |-> cur.sent + 1])
            /\ IF cur.sent + 1 < cur.m.len
                 THEN /\ cur' = [cur EXCEPT !.sent = @ + 1]
                      /\ UNCHANGED <<send_queue, sending>>
                 ELSE PipeLoopTake(send_queue)
       ELSE /\ wire' = wire
            /\ PipeLoopTake(send_queue)
  /\ UNCHANGED <<kind, is_started, is_closed, is_connected, socket_open,
                 peer_gone, sock_write, accepted, inbox>>

\* SocketTransport::SendMessage, accepted: asio::async_write is initiated by
\* the calling coroutine; the strand is not held while it is in flight.
SocketSendStart(s, m) ==
  /\ sock_write' = [sock_write EXCEPT ![s] = [m |-> m, sent |-> 0]]
  /\ accepted' = Append(accepted, m)
  /\ UNCHANGED <<kind, is_started, is_closed, is_connected, socket_open,
                 peer_gone, send_queue, sending, cur, wire, inbox>>

\* What the next async_write_some of caller s's async_write leads to.
SocketWriteOutcome(s) ==
  IF ~WriteSucceeds THEN "error"
  ELSE IF sock_write[s].sent + 1 < sock_write[s].m.len THEN "more"
  ELSE "ok"

\* One async_write_some of the composed async_write of caller s.
SocketWriteSome(s) ==
  /\ kind = "socket"
  /\ sock_write[s] # NoCur
  /\ IF WriteSucceeds
       THEN wire' = Append(wire, [m |-> sock_write[s].m,
                                  k |-> sock_write[s].sent + 1])
       ELSE wire' = wire
  /\ sock_write' = [sock_write EXCEPT ![s] =
                      IF SocketWriteOutcome(s) = "more"
                        THEN [@ EXCEPT !.sent = @ + 1]
                        ELSE NoCur]
  /\ UNCHANGED <<kind, is_started, is_closed, is_connected, socket_open,
                 peer_gone, send_queue, sending, cur, accepted, inbox>>


\* ------------------------------------------------------------- dispatcher
\* ErrorCode (types.hpp).
kParseError == -32700
kInvalidRequest == -32600
kMethodNotFound == -32601
kInternalError == -32603

\* JSON values are kept by the members the code looks at.  An id is absent,
\* null or an integer; in a response it is the integer or null.
NoId == [t |-> "absent", v |-> 0]
NullId == [t |-> "null", v |-> 0]
IntId(n) == [t |-> "integer", v |-> n]
RequestIds == {NoId, NullId} \cup {IntId(n) : n \in 1..MaxId}

\* One JSON value met as a request: a non-object (such as 1), or an object
\* with or without "jsonrpc" ("2.0" or another version), "method" (a string
\* or a number), "id" and "params" (a string, which is not allowed there).
NonObject ==
  [is_object |-> FALSE, jsonrpc |-> "absent", method_t |-> "absent",
   method |-> "", id |-> NoId, params_t |-> "absent"]
Objects ==
  {[is_object |-> TRUE, jsonrpc |-> v, method_t |-> m[1], method |-> m[2],
    id |-> i, params_t |-> p] :
     v \in {"absent", "2.0", "1.0"},
     m \in {<<"absent", "">>, <<"number", "">>}
             \cup {<<"string", n>> : n \in Methods},
     i \in RequestIds,
     p \in {"absent", "string"}}
Elements == {NonObject} \cup Objects

\* The text handed to DispatchRequest: not JSON at all, or the JSON text of a
\* single value or of an array of up to MaxBatch values.
InvalidJson == [valid |-> FALSE, is_array |-> FALSE, elems |-> <<>>]
Single(e) == [valid |-> TRUE, is_array |-> FALSE, elems |-> <<e>>]
Batch(es) == [valid |-> TRUE, is_array |-> TRUE, elems |-> es]
Batches ==
  UNION {{Batch(es) : es \in [1..n -> Elements]} : n \in 0..MaxBatch}
RawMessages == {InvalidJson} \cup {Single(e) : e \in Elements} \cup Batches
NoRequest == [valid |-> FALSE, is_array |-> TRUE, elems |-> <<>>]

\* A registered handler: its alternative in the Handler variant, whether it
\* throws, the what() of the exception it throws, and the JSON value it
\* returns: "value" for an ordinary one, "error_object" for the object
\* {"error": {"code": -32000, "message": "Division by zero"}}.
NoHandler == [kind |-> "none", throws |-> FALSE, what |-> "", returns |-> ""]
MethodCallHandler(throws) ==
  [kind |-> "method", throws |-> throws, what |-> "handler failed",
   returns |-> "value"]
NotificationHandler(throws) ==
  [kind |-> "notification", throws |-> throws, what |-> "handler failed",
   returns |-> ""]
\* A method-call handler that reports a failure in the value it returns.
ErrorObjectHandler ==
  [kind |-> "method", throws |-> FALSE, what |-> "",
   returns |-> "error_object"]

\* A method-call handler that calls SendMethodCall on its own endpoint and
\* returns when that call has returned.
CallingHandler ==
  [kind |-> "method", throws |-> FALSE, what |-> "", returns |-> "call_result"]

\* std::optional<Response> and the Response objects.
NoResponse ==
  [kind |-> "none", code |-> 0, message |-> "", id |-> NoId,
   members |-> {}, error_members |-> {}, data |-> "", result |-> ""]
\* Response::CreateResult: the value becomes the "result" member.
CreateResult(value, id) ==
  [kind |-> "result", code |-> 0, message |-> "", id |-> id,
   members |-> {"jsonrpc", "result", "id"}, error_members |-> {}, data |-> "",
   result |-> value]
\* Response::CreateErrorResponse: {"code", "message"}, and "id" (null when
\* the caller passed none).
CreateErrorResponse(message, code, id) ==
  [kind |-> "error", code |-> code, message |-> message,
   id |-> IF id = NoId THEN NullId ELSE id,
   members |-> {"jsonrpc", "error", "id"},
   error_members |-> {"code", "message"}, data |-> "", result |-> ""]
\* Response::CreateLibError: the message of the code.
CreateLibError(error_code, id) ==
  CreateErrorResponse(
    CASE error_code = kParseError -> "Parse error"
      [] error_code = kInvalidRequest -> "Invalid Request"
      [] error_code = kMethodNotFound -> "Method not found"
      [] error_code = kInternalError -> "Internal error"
      [] OTHER -> "Server error",
    error_code, id)

\* What a dispatch function produced: t is "nullopt", "some" (v a response),
\* "array" (vs the responses) or "throws" (an exception left the function);
\* inv lists the methods whose handlers were invoked.
Out(t, v, vs, inv) == [t |-> t, v |-> v, vs |-> vs, inv |-> inv]
Nullopt(inv) == Out("nullopt", NoResponse, <<>>, inv)
Some(v, inv) == Out("some", v, <<>>, inv)
Throws(inv) == Out("throws", NoResponse, <<>>, inv)
NoReply == Out("pending", NoResponse, <<>>, <<>>)

\* Dispatcher::ValidateRequest.
ValidateRequest(request_json) ==
  IF ~request_json.is_object
    THEN CreateLibError(kInvalidRequest, NoId)
  ELSE IF request_json.jsonrpc # "2.0"
    THEN CreateLibError(kInvalidRequest, NoId)
  ELSE IF request_json.method_t = "absent"
    THEN IF request_json.id # NoId
           THEN CreateLibError(kInvalidRequest, NoId)
           ELSE NoResponse
  ELSE IF request_json.method_t # "string"
    THEN CreateLibError(kInvalidRequest, NoId)
  ELSE NoResponse

\* What Request::FromJson gives: the Request (ok), the RpcError with its
\* message, or an exception that leaves it (throws).
Parsed(ok, method, is_notification, id, error, throws) ==
  [ok |-> ok, method |-> method, is_notification |-> is_notification,
   id |-> id, error |-> error, throws |-> throws]
ParseError(message) == Parsed(FALSE, "", FALSE, NoId, message, FALSE)
ParseThrows == Parsed(FALSE, "", FALSE, NoId, "", TRUE)
NotParsed == Parsed(FALSE, "", FALSE, NoId, "not called", FALSE)

\* json_obj["jsonrpc"].get<std::string>() != kJsonRpcVersion: the get
\* throws nlohmann's type_error on a value that is not a string.
VersionCheck(json_obj) ==
  IF json_obj.jsonrpc = "number" THEN "throws"
  ELSE IF json_obj.jsonrpc # "2.0" THEN "differs" ELSE "equal"

\* Request::FromJson.
FromJson(json_obj) ==
  IF ~json_obj.is_object
    THEN ParseError("Request must be a JSON object")
  ELSE IF json_obj.jsonrpc = "absent"
    THEN ParseError("Missing or invalid 'jsonrpc' version")
  ELSE IF VersionCheck(json_obj) = "throws" THEN ParseThrows
  ELSE IF VersionCheck(json_obj) = "differs"
    THEN ParseError("Missing or invalid 'jsonrpc' version")
  ELSE IF json_obj.method_t # "string"
    THEN ParseError("Missing or invalid 'method'")
  ELSE IF json_obj.params_t \notin {"absent", "array", "object", "null"}
    THEN ParseError("'params' must be object, array, or null")
  ELSE IF json_obj.id.t = "absent"
    THEN Parsed(TRUE, json_obj.method, TRUE, NoId, "", FALSE)
  ELSE IF json_obj.id.t \notin {"string", "integer"}
    THEN ParseError("Invalid 'id' type")
  ELSE Parsed(TRUE, json_obj.method, FALSE, json_obj.id, "", FALSE)

\* Dispatcher::FindHandler.
FindHandler(hs, method) == hs[method]

\* A HandleMethodCall that lets the handler's exception through.
HandleMethodCallUncaught(request, handler) ==
  IF handler.throws
    THEN Throws(<<request.method>>)
    ELSE Some(CreateResult(handler.returns, request.id), <<request.method>>)

\* Dispatcher::HandleMethodCall: the handler's result, or InternalError when
\* it throws.
HandleMethodCall(request, handler) ==
  IF handler.throws
    THEN Some(CreateLibError(kInternalError, request.id), <<request.method>>)
    ELSE Some(CreateResult(handler.returns, request.id), <<request.method>>)

\* Dispatcher::HandleNotification: the handler runs, its exception is dropped.
HandleNotification(request, handler) == Nullopt(<<request.method>>)

\* A HandleRequest that answers a notification whose handler is of the
\* other alternative.
HandleRequestAnswering(request, handler) ==
  IF handler.kind = "method"
    THEN HandleMethodCall(request, handler)
    ELSE IF request.is_notification
      THEN HandleNotification(request, handler)
      ELSE Some(CreateLibError(kInvalidRequest, request.id), <<>>)

\* Dispatcher::HandleRequest.
HandleRequest(request, handler) ==
  IF ~request.is_notification
    THEN IF handler.kind = "method"
           THEN HandleMethodCall(request, handler)
           ELSE Some(CreateLibError(kInvalidRequest, request.id), <<>>)
    ELSE IF handler.kind = "notification"
           THEN HandleNotification(request, handler)
           ELSE Nullopt(<<>>)

\* Dispatcher::DispatchSingleRequestInner.  Request::FromJson is used as
\* returning a Request (request.hpp: it throws on an invalid request); the
\* call is not in a try block.
DispatchSingleRequestInner(request_json) ==
  IF ValidateRequest(request_json) # NoResponse
    THEN Some(ValidateRequest(request_json), <<>>)
  ELSE IF ~FromJson(request_json).ok
    THEN Throws(<<>>)
  ELSE IF FindHandler(handlers, FromJson(request_json).method) = NoHandler
    THEN IF ~FromJson(request_json).is_notification
           THEN Some(CreateLibError(kMethodNotFound,
                                    FromJson(request_json).id), <<>>)
           ELSE Nullopt(<<>>)
  ELSE HandleRequest(FromJson(request_json),
                     FindHandler(handlers, FromJson(request_json).method))

\* Dispatcher::DispatchSingleRequest.
DispatchSingleRequest(request_json) ==
  DispatchSingleRequestInner(request_json)

RECURSIVE CollectReversed(_)
\* A DispatchBatchRequestInner that puts each response before the ones
\* collected so far.
CollectReversed(outs) ==
  IF outs = <<>> THEN Out("array", NoResponse, <<>>, <<>>)
  ELSE LET rest == CollectReversed(Tail(outs))
           o == Head(outs)
       IN Out("array", NoResponse,
              rest.vs \o (IF o.t = "some" THEN <<o.v>> ELSE <<>>),
              o.inv \o rest.inv)

RECURSIVE Collect(_)
\* DispatchBatchRequestInner: the responses that are present, in the order
\* of the elements, and the handlers invoked.
Collect(outs) ==
  IF outs = <<>> THEN Out("array", NoResponse, <<>>, <<>>)
  ELSE LET rest == Collect(Tail(outs))
           o == Head(outs)
       IN Out("array", NoResponse,
              (IF o.t = "some" THEN <<o.v>> ELSE <<>>) \o rest.vs,
              o.inv \o rest.inv)

\* Dispatcher::DispatchBatchRequestInner: every element is dispatched (on
\* the thread pool), then future.get() is called on each in order, which
\* rethrows the exception of an element.
DispatchBatchRequestInner(request_json) ==
  LET outs == [i \in 1..Len(request_json) |->
                 DispatchSingleRequestInner(request_json[i])]
  IN IF \E i \in 1..Len(outs) : outs[i].t = "throws"
       THEN Throws(Collect(outs).inv)
       ELSE Collect(outs)

\* A DispatchBatchRequest that has no check for the empty array.
DispatchBatchRequestUnchecked(request_json) ==
  IF DispatchBatchRequestInner(request_json).t = "array" /\
     DispatchBatchRequestInner(request_json).vs = <<>>
    THEN Nullopt(DispatchBatchRequestInner(request_json).inv)
    ELSE DispatchBatchRequestInner(request_json)

\* Dispatcher::DispatchBatchRequest.
DispatchBatchRequest(request_json) ==
  IF request_json = <<>>
    THEN Some(CreateLibError(kInvalidRequest, NoId), <<>>)
  ELSE IF DispatchBatchRequestInner(request_json).t = "array" /\
          DispatchBatchRequestInner(request_json).vs = <<>>
    THEN Nullopt(DispatchBatchRequestInner(request_json).inv)
  ELSE DispatchBatchRequestInner(request_json)

\* Dispatcher::DispatchRequest.
DispatchRequest(request) ==
  IF ~request.valid
    THEN Some(CreateLibError(kParseError, NoId), <<>>)
  ELSE IF request.is_array
    THEN DispatchBatchRequest(request.elems)
  ELSE DispatchSingleRequest(request.elems[1])

\* Dispatcher::RegisterMethodCall and RegisterNotification: one table, the
\* later registration under a name replaces the earlier one.
RegisterMethodCall(method, handler) ==
  handlers' = [handlers EXCEPT ![method] = handler]

RegisterNotification(method, handler) ==
  handlers' = [handlers EXCEPT ![method] = handler]


\* ------------------------------------------------------------- framing
\* A text is the sequence of its bytes, a byte a string of one character.
CR == "\r"
LF == "\n"
CRLF == <<CR, LF>>
ContentLengthName ==
  <<"C", "o", "n", "t", "e", "n", "t", "-", "L", "e", "n", "g", "t", "h",
    ":">>
ContentTypeName ==
  <<"C", "o", "n", "t", "e", "n", "t", "-", "T", "y", "p", "e", ":">>
\* The default content_type of Frame.
DefaultContentType ==
  <<"a", "p", "p", "l", "i", "c", "a", "t", "i", "o", "n", "/", "v", "s",
    "c", "o", "d", "e", "-", "j", "s", "o", "n", "r", "p", "c", ";", " ",
    "c", "h", "a", "r", "s", "e", "t", "=", "u", "t", "f", "-", "8">>
DigitChars == <<"0", "1", "2", "3", "4", "5", "6", "7", "8", "9">>

\* The payloads framed: every text of up to MaxPayload bytes over
\* PayloadBytes, and the texts of LongLen equal bytes (a Content-Length of
\* more than one digit).
PayloadBytes == {"a", "1", CR, LF}
Payloads ==
  UNION {[1..n -> PayloadBytes] : n \in 0..MaxPayload}
    \cup {[i \in 1..LongLen |-> b] : b \in PayloadBytes}

\* operator<< of a std::size_t: the decimal digits.
RECURSIVE ToDigits(_)
ToDigits(n) ==
  IF n < 10 THEN <<DigitChars[n + 1]>>
  ELSE ToDigits(n \div 10) \o <<DigitChars[(n % 10) + 1]>>

\* MessageFramer::Frame.
Frame(message, content_type) ==
  ContentLengthName \o <<" ">> \o ToDigits(Len(message)) \o CRLF
    \o ContentTypeName \o <<" ">> \o content_type \o CRLF
    \o CRLF
    \o message

\* std::string::npos, find and substr (offsets count from 0).
Npos == -1
FindIn(str, pattern) ==
  LET at == {i \in 1..(Len(str) - Len(pattern) + 1) :
               SubSeq(str, i, i + Len(pattern) - 1) = pattern}
  IN IF at = {} THEN Npos
     ELSE (CHOOSE i \in at : \A j \in at : i <= j) - 1
Substr(str, pos, count) ==
  SubSeq(str, pos + 1, IF pos + count < Len(str) THEN pos + count ELSE Len(str))
StartsWith(str, prefix) ==
  Len(str) >= Len(prefix) /\ SubSeq(str, 1, Len(prefix)) = prefix

\* std::getline on the header text, until the stream is exhausted.
RECURSIVE GetLines(_)
GetLines(str) ==
  IF str = <<>> THEN <<>>
  ELSE IF FindIn(str, <<LF>>) = Npos THEN <<str>>
  ELSE <<Substr(str, 0, FindIn(str, <<LF>>))>>
         \o GetLines(Substr(str, FindIn(str, <<LF>>) + 1, Len(str)))

\* std::stoi: leading white space is skipped, then an optional sign and the
\* decimal digits are read; no digit, or a value that is no int, throws.
IntMax == 2147483647
IsSpace(c) == c \in {" ", "\t", LF, CR, "\f"}
DigitValue(c) == (CHOOSE i \in 1..10 : DigitChars[i] = c) - 1
IsDigit(c) == \E i \in 1..10 : DigitChars[i] = c
RECURSIVE SkipSpace(_)
SkipSpace(str) ==
  IF str # <<>> /\ IsSpace(Head(str)) THEN SkipSpace(Tail(str)) ELSE str
\* Whether value * 10 + digit, with the sign, is still an int.
Fits(value, digit, sign) ==
  IF sign = 1
    THEN \/ value < IntMax \div 10
         \/ value = IntMax \div 10 /\ digit <= IntMax % 10
    ELSE \/ value > -(IntMax \div 10)
         \/ value = -(IntMax \div 10) /\ digit <= (IntMax % 10) + 1
RECURSIVE ReadDigits(_, _, _, _)
\* value is the number read so far, count the number of digits read.
ReadDigits(str, value, count, sign) ==
  IF str = <<>> \/ ~IsDigit(Head(str))
    THEN [value |-> value, count |-> count, fits |-> TRUE]
  ELSE IF ~Fits(value, DigitValue(Head(str)), sign)
    THEN [value |-> value, count |-> count + 1, fits |-> FALSE]
  ELSE ReadDigits(Tail(str), 10 * value + sign * DigitValue(Head(str)),
                  count + 1, sign)
Stoi(str) ==
  LET t == SkipSpace(str)
      signed == t # <<>> /\ Head(t) \in {"-", "+"}
      r == ReadDigits(IF signed THEN Tail(t) ELSE t, 0, 0,
                      IF t # <<>> /\ Head(t) = "-" THEN -1 ELSE 1)
  IN IF r.count = 0 \/ ~r.fits
       THEN [ok |-> FALSE, value |-> 0]
       ELSE [ok |-> TRUE, value |-> r.value]

\* MessageFramer's members, and DeframeResult.
NewFramer ==
  [header_complete |-> FALSE, expected_length |-> 0, header_size |-> 0]
DeframeResult(complete, message, consumed_bytes, error) ==
  [complete |-> complete, message |-> message,
   consumed_bytes |-> consumed_bytes, error |-> error]
NoResult == DeframeResult(FALSE, <<>>, 0, "")
Deframed(res, f) == [result |-> res, framer |-> f]

\* A header loop that takes every header block for one of a message of no
\* bytes.
ParseHeadersUnchecked(lines, found_length, expected_length) ==
  [error |-> "", found_length |-> TRUE, expected_length |-> 0]

\* TryDeframe, the header loop: every line up to the first empty one; a line
\* that starts with "Content-Length:" sets expected_length_, or ends the
\* call when std::stoi throws.
RECURSIVE ParseHeaders(_, _, _)
ParseHeaders(lines, found_length, expected_length) ==
  IF lines = <<>> \/ Head(lines) = <<>>
    THEN [error |-> "", found_length |-> found_length,
          expected_length |-> expected_length]
  ELSE IF StartsWith(Head(lines), ContentLengthName)
    THEN IF Stoi(Substr(Head(lines), 15, Len(Head(lines)))).ok
           THEN ParseHeaders(Tail(lines), TRUE,
                  Stoi(Substr(Head(lines), 15, Len(Head(lines)))).value)
           ELSE [error |-> "Invalid Content-Length header",
                 found_length |-> found_length,
                 expected_length |-> expected_length]
  ELSE ParseHeaders(Tail(lines), found_length, expected_length)

\* expected_length_ is a std::size_t assigned from an int n: it holds
\* n mod 2^64, and so does every sum with it.  The member is kept as n: a
\* sum that is negative stands for a size larger than any buffer, and a
\* negative count for one that reaches the end of the string.
NeedsMore(f, buf) ==
  \/ f.header_size + f.expected_length < 0
  \/ Len(buf) < f.header_size + f.expected_length
Count(f, buf) == IF f.expected_length < 0 THEN Len(buf) ELSE f.expected_length

\* A TryDeframe that takes the message from the start of the buffer.
ExtractFromStart(f, buf) ==
  IF NeedsMore(f, buf)
    THEN Deframed(NoResult, f)
    ELSE Deframed(DeframeResult(TRUE, Substr(buf, 0, Count(f, buf)),
                                f.header_size + f.expected_length, ""),
                  NewFramer)

\* A TryDeframe that keeps its state when it has emitted a message.
ExtractWithoutReset(f, buf) ==
  IF NeedsMore(f, buf)
    THEN Deframed(NoResult, f)
    ELSE Deframed(DeframeResult(TRUE,
                                Substr(buf, f.header_size, Count(f, buf)),
                                f.header_size + f.expected_length, ""),
                  f)

\* TryDeframe from "Check if we have enough data for the content": the
\* message is extracted and the state reset, or more data is needed.
Extract(f, buf) ==
  IF NeedsMore(f, buf)
    THEN Deframed(NoResult, f)
    ELSE Deframed(DeframeResult(TRUE,
                                Substr(buf, f.header_size, Count(f, buf)),
                                f.header_size + f.expected_length, ""),
                  NewFramer)

\* MessageFramer::TryDeframe: the result and the members after the call.
TryDeframe(f, buf) ==
  IF f.header_complete THEN Extract(f, buf)
  ELSE IF FindIn(buf, CRLF \o CRLF) = Npos THEN Deframed(NoResult, f)
  ELSE LET header_end == FindIn(buf, CRLF \o CRLF)
           h == ParseHeaders(GetLines(Substr(buf, 0, header_end)), FALSE,
                             f.expected_length)
       IN IF h.error # ""
            THEN Deframed(DeframeResult(FALSE, <<>>, 0, h.error),
                          [f EXCEPT !.expected_length = h.expected_length])
          ELSE IF ~h.found_length
            THEN Deframed(DeframeResult(FALSE, <<>>, 0,
                                        "Missing Content-Length header"), f)
          ELSE Extract([header_complete |-> TRUE,
                        expected_length |-> h.expected_length,
                        header_size |-> header_end + 4], buf)

\* The byte stream of the framed messages ps.
RECURSIVE Stream(_)
Stream(ps) ==
  IF ps = <<>> THEN <<>>
  ELSE Frame(Head(ps), DefaultContentType) \o Stream(Tail(ps))


\* ------------------------------------------------------------- endpoint
NoCaller == 0
\* The coroutines that call SendMessage: the callers and the message loop.
Writers == Callers \cup {NoCaller}
NewPending == [is_ready |-> FALSE, has_error |-> FALSE, result |-> NoRes]
LoopTask == Task("loop", 0, NoRes)

\* The state after construction; request is the text the dispatcher is
\* going to be called with, bytes the byte stream that is going to arrive.
InitBytes(request, sent, bytes) ==
  /\ kind \in Kinds
  /\ is_started = FALSE /\ is_closed = FALSE /\ is_connected = FALSE
  /\ socket_open = FALSE /\ peer_gone = FALSE
  /\ send_queue = <<>> /\ sending = FALSE /\ cur = NoCur
  /\ sock_write = [s \in Writers |-> NoCur]
  /\ wire = <<>> /\ accepted = <<>> /\ inbox = <<>>
  /\ is_running = FALSE
  /\ pending_requests = {}
  /\ next_request_id = 0
  /\ message_loop = FALSE
  /\ strand = <<>>
  /\ loop_pc = "none" /\ loop_msg = NoRes /\ loop_found = NoCaller
  /\ pr = [c \in Callers |-> NewPending]
  /\ pc = [s \in Callers |-> "idle"]
  /\ id_of = [c \in Callers |-> -1]
  /\ result = [s \in Callers |-> NoRes]
  /\ st_pc = "idle" /\ sd_pc = "idle" /\ w_pc = "idle"
  /\ starts = 0 /\ phase = "fresh" /\ st_res = "none"
  /\ resolutions = [c \in Callers |-> 0]
  /\ cancelled = {}
  /\ responses = 0
  /\ handlers = [m \in Methods |-> NoHandler]
  /\ request_str = request
  /\ reply = NoReply
  /\ served = <<>>
  /\ inbound = 0
  /\ payloads = sent
  /\ stream = bytes
  /\ buffer = <<>>
  /\ framer = NewFramer
  /\ last = NoResult
  /\ received = <<>>
  /\ rx_pc = "idle"
  /\ parsed = NotParsed
  /\ connect_pc = "idle"

\* The state after construction when the peer has framed the messages sent.
InitOf(request, sent) == InitBytes(request, sent, Stream(sent))

InitWith(request) == InitOf(request, <<>>)

Init == InitWith(NoRequest)

\* An id counter that is never advanced.
GetNextRequestIdStuck(counter) == counter

\* GetNextRequestId: `return next_request_id_++` on the atomic counter.
GetNextRequestId(counter) == counter + 1

\* A Start() that never finds the endpoint running.
StartNeverRunning == FALSE

\* Start(): is_running_.exchange(true) returned true.
StartAlreadyRunning == is_running

\* A Shutdown() that never finds the endpoint stopped.
ShutdownAlwaysRunning == FALSE

\* Shutdown(): is_running_.exchange(false) returned false, and Shutdown()
\* returns success at once.
ShutdownNotRunning == ~is_running

\* A send that never finds the endpoint stopped.
SendAlwaysRunning == FALSE

\* SendMethodCall / SendNotification: `if (!is_running_)`.
SendNotRunning == ~is_running

\* PendingRequest::SetResult, the posted lambda: set once.
SetResult(p, v) ==
  IF ~p.is_ready THEN [p EXCEPT !.result = v, !.is_ready = TRUE] ELSE p

\* A lookup that takes any entry, whatever its id.
FindAny(id) == pending_requests

\* HandleResponse, the posted lambda: pending_requests_.find(id).
Find(id) == {e \in pending_requests : e.id = id}

\* A lookup that leaves the entry in the table.
EraseNothing(e) == pending_requests

\* HandleResponse, the posted lambda: pending_requests_.erase(it).
Erase(e) == pending_requests \ {e}

\* The while condition of ProcessMessagesLoop.  The coroutine's cancellation
\* state is never cancelled: cancel_signal_'s slot is passed to the loop and
\* not used.
LoopCondition == is_running

RECURSIVE CancelTasks(_)
\* Shutdown(): one Cancel (a posted SetResult) per pending entry.
CancelTasks(es) ==
  IF es = {} THEN <<>>
  ELSE LET e == CHOOSE x \in es : \A y \in es : x.id <= y.id
       IN <<Task("setresult", e.req,
                 CancelError(-32603, "RPC endpoint shutting down"))>>
          \o CancelTasks(es \ {e})

\* Start(), up to the co_await of the transport's Start(); at most `limit`
\* calls find the endpoint stopped.
StartWithin(limit) ==
  /\ st_pc = "idle"
  /\ is_running \/ starts < limit
  /\ IF StartAlreadyRunning
       THEN /\ st_res' = "already_running"
            /\ UNCHANGED <<is_running, pending_requests, st_pc, starts, phase>>
       ELSE /\ starts' = starts + 1
            /\ is_running' = TRUE
            /\ pending_requests' = {}
            /\ st_pc' = "starting"
            /\ st_res' = "none"
            /\ phase' = IF phase = "fresh" THEN "started" ELSE "restarted"
  /\ UNCHANGED <<tvars, next_request_id, message_loop, strand, loop_pc,
                 loop_msg, loop_found, pr, pc, id_of, result, sd_pc, w_pc,
                 resolutions, cancelled, responses>>
  /\ UNCHANGED dvars

StartCall == StartWithin(MaxStarts)

\* Start(), from the return of the transport's Start(): on success
\* StartMessageProcessing stores the (lazy) awaitable in message_loop_.
StartFinish ==
  /\ st_pc = "starting"
  /\ \E connected \in BOOLEAN :
       /\ TransportStart(connected)
       /\ IF TransportStartOk(connected)
            THEN /\ message_loop' = TRUE
                 /\ st_res' = "ok"
            ELSE /\ message_loop' = message_loop
                 /\ st_res' = "transport_error"
  /\ st_pc' = "idle"
  /\ UNCHANGED <<is_running, pending_requests, next_request_id, strand,
                 loop_pc, loop_msg, loop_found, pr, pc, id_of, result, sd_pc,
                 w_pc, starts, phase, resolutions, cancelled, responses>>
  /\ UNCHANGED dvars

\* WaitForShutdown(): `if (!is_running_)`, the first return.
WaitNotRunning == ~is_running

\* WaitForShutdown() returns at once when is_running_ is false or
\* message_loop_ is not valid.
WaitReturnsAtOnce == WaitNotRunning \/ ~message_loop

\* WaitForShutdown(): returns at once, or awaits message_loop_, which spawns
\* the loop.  (message_loop_ is valid only while nobody has awaited it.)
WaitCall ==
  /\ IF WaitReturnsAtOnce
       THEN UNCHANGED <<w_pc, message_loop, loop_pc, strand>>
       ELSE /\ w_pc' = "awaiting"
            /\ message_loop' = FALSE
            /\ loop_pc' = "check"
            /\ strand' = Append(strand, LoopTask)
  /\ UNCHANGED <<tvars, is_running, pending_requests, next_request_id,
                 loop_msg, loop_found, pr, pc, id_of, result, st_pc, sd_pc,
                 hvars>>
  /\ UNCHANGED dvars

\* Shutdown(), up to the post to the strand.
ShutdownCall ==
  /\ sd_pc = "idle"
  /\ IF ShutdownNotRunning
       THEN UNCHANGED <<is_running, sd_pc, strand, phase>>
       ELSE /\ is_running' = FALSE
            /\ sd_pc' = "posted"
            /\ strand' = Append(strand, Task("shutdown", 0, NoRes))
            /\ phase' = IF phase = "started" THEN "shutdown" ELSE phase
  /\ UNCHANGED <<tvars, pending_requests, next_request_id, message_loop,
                 loop_pc, loop_msg, loop_found, pr, pc, id_of, result, st_pc,
                 w_pc, starts, st_res, resolutions, cancelled, responses>>
  /\ UNCHANGED dvars


\* ------------------------------------------------------------- strand tasks
HeadIs(t) == strand # <<>> /\ Head(strand).t = t

\* An install lambda that may run after the tasks posted later.
RunInstallUnordered ==
  /\ HeadIs("install")
  /\ \/ /\ LET c == Head(strand).a
           IN pending_requests' =
                {e \in pending_requests : e.id # id_of[c]}
                  \cup {[id |-> id_of[c], req |-> c]}
        /\ strand' = Tail(strand)
     \/ /\ Len(strand) > 1
        /\ strand' = Append(Tail(strand), Head(strand))
        /\ pending_requests' = pending_requests
  /\ UNCHANGED <<tvars, is_running, next_request_id, message_loop, loop_pc,
                 loop_msg, loop_found, pr, uvars, hvars>>
  /\ UNCHANGED dvars

\* The lambda posted by SendMethodCall: pending_requests_[request_id] = ...
RunInstall ==
  /\ HeadIs("install")
  /\ LET c == Head(strand).a
     IN pending_requests' =
          {e \in pending_requests : e.id # id_of[c]}
            \cup {[id |-> id_of[c], req |-> c]}
  /\ strand' = Tail(strand)
  /\ UNCHANGED <<tvars, is_running, next_request_id, message_loop, loop_pc,
                 loop_msg, loop_found, pr, uvars, hvars>>
  /\ UNCHANGED dvars

\* The lambda posted by PendingRequest::SetResult.
RunSetResult ==
  /\ HeadIs("setresult")
  /\ pr' = [pr EXCEPT ![Head(strand).a] = SetResult(@, Head(strand).v)]
  /\ strand' = Tail(strand)
  /\ UNCHANGED <<tvars, is_running, pending_requests, next_request_id,
                 message_loop, loop_pc, loop_msg, loop_found, uvars, hvars>>
  /\ UNCHANGED dvars

\* The lambda posted by HandleResponse: find the id, take and erase the entry.
RunLookup ==
  /\ HeadIs("lookup")
  /\ IF Find(Head(strand).a) # {}
       THEN \E e \in Find(Head(strand).a) :
              /\ loop_found' = e.req
              /\ pending_requests' = Erase(e)
       ELSE /\ loop_found' = NoCaller
            /\ pending_requests' = pending_requests
  /\ strand' = Tail(strand)
  /\ UNCHANGED <<tvars, is_running, next_request_id, message_loop, loop_pc,
                 loop_msg, pr, uvars, hvars>>
  /\ UNCHANGED dvars

\* Shutdown(), from the strand post to the next co_await: cancel every
\* pending request, clear the table, then await message_loop_ when it is
\* valid (which spawns the loop) or go on to close the transport.
RunShutdown ==
  /\ HeadIs("shutdown")
  /\ sd_pc = "posted"
  /\ cancelled' = cancelled \cup
                    {e.req : e \in {x \in pending_requests : pc[x.req] = "sent"}}
  /\ pr' = [c \in Callers |->
              IF \E e \in pending_requests : e.req = c
                THEN [pr[c] EXCEPT !.has_error = TRUE] ELSE pr[c]]
  /\ resolutions' = [c \in Callers |->
              IF \E e \in pending_requests : e.req = c
                THEN resolutions[c] + 1 ELSE resolutions[c]]
  /\ pending_requests' = {}
  /\ IF message_loop
       THEN /\ message_loop' = FALSE
            /\ loop_pc' = "check"
            /\ sd_pc' = "awaitloop"
            /\ strand' = Tail(strand) \o CancelTasks(pending_requests)
                           \o <<LoopTask>>
       ELSE /\ sd_pc' = "close"
            /\ strand' = Tail(strand) \o CancelTasks(pending_requests)
            /\ UNCHANGED <<message_loop, loop_pc>>
  /\ UNCHANGED <<tvars, is_running, next_request_id, loop_msg, loop_found,
                 pc, id_of, result, st_pc, w_pc, starts, phase, st_res,
                 responses>>
  /\ UNCHANGED dvars

\* Shutdown(): `co_await transport_->Close()` and the return.
ShutdownClose ==
  /\ sd_pc = "close"
  /\ TransportClose
  /\ sd_pc' = "idle"
  /\ UNCHANGED <<evars, pc, id_of, result, st_pc, w_pc, hvars>>
  /\ UNCHANGED dvars

\* ------------------------------------------------------------- message loop
\* The loop evaluates its while condition and either calls ReceiveMessage
\* (the state checks, then async_read_some; an error result leads to
\* RetryDelay) or returns, which resumes the coroutine that awaits
\* message_loop_.
LoopWhile(q) ==
  IF LoopCondition
    THEN /\ loop_pc' = IF ReceiveMessageCheck = "ok" THEN "reading" ELSE "retry"
         /\ strand' = q
         /\ UNCHANGED <<sd_pc, w_pc>>
    ELSE /\ loop_pc' = "done"
         /\ strand' = q
         /\ sd_pc' = IF sd_pc = "awaitloop" THEN "close" ELSE sd_pc
         /\ w_pc' = IF w_pc = "awaiting" THEN "idle" ELSE w_pc

LoopCheck ==
  /\ HeadIs("loop")
  /\ loop_pc = "check"
  /\ LoopWhile(Tail(strand))
  /\ UNCHANGED <<tvars, is_running, pending_requests, next_request_id,
                 message_loop, loop_msg, loop_found, pr, pc, id_of, result,
                 st_pc, hvars>>
  /\ UNCHANGED dvars

\* async_read_some completes with a message of the peer.
ReadComplete ==
  /\ loop_pc = "reading"
  /\ socket_open
  /\ inbox # <<>>
  /\ loop_msg' = Head(inbox)
  /\ inbox' = Tail(inbox)
  /\ loop_pc' = "handle"
  /\ strand' = Append(strand, LoopTask)
  /\ UNCHANGED <<kind, is_started, is_closed, is_connected, socket_open,
                 peer_gone, send_queue, sending, cur, sock_write, wire,
                 accepted, is_running, pending_requests, next_request_id,
                 message_loop, loop_found, pr, uvars, hvars>>
  /\ UNCHANGED dvars

\* async_read_some completes with an error: the socket was closed under it
\* (operation_aborted) or the peer is gone (eof).
ReadError ==
  /\ loop_pc = "reading"
  /\ \/ ~socket_open
     \/ peer_gone /\ inbox = <<>>
  /\ is_connected' = IF socket_open THEN FALSE ELSE is_connected
  /\ loop_pc' = "retry"
  /\ UNCHANGED <<kind, is_started, is_closed, socket_open, peer_gone,
                 send_queue, sending, cur, sock_write, wire, accepted, inbox,
                 is_running, pending_requests, next_request_id, message_loop,
                 strand, loop_msg, loop_found, pr, uvars, hvars>>
  /\ UNCHANGED dvars

\* RetryDelay's timer expires and the loop continues.
RetryDelay ==
  /\ loop_pc = "retry"
  /\ loop_pc' = "check"
  /\ strand' = Append(strand, LoopTask)
  /\ UNCHANGED <<tvars, is_running, pending_requests, next_request_id,
                 message_loop, loop_msg, loop_found, pr, uvars, hvars>>
  /\ UNCHANGED dvars

\* HandleMessage: a text that does not parse is an error; a JSON value with
\* "id" and "result" or "error" goes to HandleResponse, any other to the
\* dispatcher.
HandleMessageRoute(message) ==
  IF message.kind # "text" THEN "response"
  ELSE IF ~message.body.valid THEN "discarded"
  ELSE "dispatch"

\* HandleMessage on a response.  A response that Response::FromJson gives
\* no value for, or whose id is missing or not an int64, is an error of
\* HandleMessage (RetryDelay).  Else HandleResponse up to its co_await: post
\* the lookup lambda, then post the coroutine's own continuation.
LoopHandle ==
  /\ HeadIs("loop")
  /\ loop_pc = "handle"
  /\ HandleMessageRoute(loop_msg) = "response"
  /\ IF ~loop_msg.valid \/ loop_msg.id_t # "integer"
       THEN /\ loop_found' = loop_found
            /\ loop_pc' = "retry"
            /\ strand' = Tail(strand)
       ELSE /\ loop_found' = NoCaller
            /\ loop_pc' = "resolve"
            /\ strand' = Tail(strand) \o
                            <<Task("lookup", loop_msg.id, NoRes), LoopTask>>
  /\ UNCHANGED <<tvars, is_running, pending_requests, next_request_id,
                 message_loop, loop_msg, pr, uvars, hvars>>
  /\ UNCHANGED dvars

\* HandleResponse after the lookup: an unknown id is an error (RetryDelay);
\* else SetResult is called and the loop goes round.
LoopResolve ==
  /\ HeadIs("loop")
  /\ loop_pc = "resolve"
  /\ IF loop_found = NoCaller
       THEN /\ loop_pc' = "retry"
            /\ strand' = Tail(strand)
            /\ UNCHANGED <<resolutions, sd_pc, w_pc>>
       ELSE /\ resolutions' = [resolutions EXCEPT ![loop_found] = @ + 1]
            /\ LoopWhile(Append(Tail(strand),
                                Task("setresult", loop_found, loop_msg)))
  /\ UNCHANGED <<tvars, is_running, pending_requests, next_request_id,
                 message_loop, loop_msg, loop_found, pr, pc, id_of, result,
                 st_pc, starts, phase, st_res, cancelled, responses>>
  /\ UNCHANGED dvars


\* The response the message loop writes (one write unit, no request id).
ReplyMsg == Msg(NoCaller, -1, 1)

\* HandleMessage on a text that is not a response.  A text that does not
\* parse is an error of HandleMessage (RetryDelay); else the text goes to
\* DispatchRequest and the response, if any, to transport_->SendMessage,
\* whose error is the error of HandleMessage.  An exception that leaves
\* DispatchRequest leaves ProcessMessagesLoop too, and is rethrown in the
\* coroutine that awaits message_loop_.
LoopDispatch ==
  /\ HeadIs("loop")
  /\ loop_pc = "handle"
  /\ HandleMessageRoute(loop_msg) # "response"
  /\ LET r == IF HandleMessageRoute(loop_msg) = "discarded"
                THEN NoReply ELSE DispatchRequest(loop_msg.body)
         send == r.t \in {"some", "array"}
     IN /\ served' = Append(served,
                        [msg |-> loop_msg.body, reply |-> r,
                         submitted |-> send /\ SendMessageCheck = "ok"])
        /\ CASE r.t = "pending" \/ (send /\ SendMessageCheck # "ok") ->
                  /\ loop_pc' = "retry"
                  /\ strand' = Tail(strand)
                  /\ UNCHANGED <<tvars, sd_pc, w_pc>>
             [] r.t = "throws" ->
                  /\ loop_pc' = "done"
                  /\ strand' = Tail(strand)
                  /\ sd_pc' = IF sd_pc = "awaitloop" THEN "idle" ELSE sd_pc
                  /\ w_pc' = IF w_pc = "awaiting" THEN "idle" ELSE w_pc
                  /\ UNCHANGED tvars
             [] r.t = "nullopt" ->
                  /\ LoopWhile(Tail(strand))
                  /\ UNCHANGED tvars
             [] send /\ SendMessageCheck = "ok" /\ kind = "pipe" ->
                  /\ PipeSendMessage(ReplyMsg)
                  /\ LoopWhile(Tail(strand))
             [] send /\ SendMessageCheck = "ok" /\ kind # "pipe" ->
                  /\ SocketSendStart(NoCaller, ReplyMsg)
                  /\ loop_pc' = "replying"
                  /\ strand' = Tail(strand)
                  /\ UNCHANGED <<sd_pc, w_pc>>
  /\ UNCHANGED <<is_running, pending_requests, next_request_id, message_loop,
                 loop_msg, loop_found, pr, pc, id_of, result, st_pc, hvars,
                 handlers, request_str, reply, inbound,
                 fvars>>

\* SocketTransport::SendMessage called by HandleMessage: the async_write
\* goes on; when it is done the loop goes round, after RetryDelay when the
\* write failed.
LoopReplyWrite ==
  /\ loop_pc = "replying"
  /\ SocketWriteSome(NoCaller)
  /\ loop_pc' = CASE SocketWriteOutcome(NoCaller) = "more" -> "replying"
                  [] SocketWriteOutcome(NoCaller) = "ok" -> "check"
                  [] OTHER -> "retry"
  /\ strand' = IF SocketWriteOutcome(NoCaller) = "ok"
                 THEN Append(strand, LoopTask) ELSE strand
  /\ UNCHANGED <<is_running, pending_requests, next_request_id, message_loop,
                 loop_msg, loop_found, pr, uvars, hvars, dvars>>

\* ------------------------------------------------------------- callers
TransportError == Ret("transport_error", -1, -32010, "")
\* The ClientError of SendMethodCall and that of SendNotification.
NotRunning == Ret("client_error", -1, -32099, "RPC endpoint is not running")
NotifyNotRunning == Ret("client_error", -1, -32099, "RpcEndpoint is not running")
Ok == Ret("ok", -1, 0, "")

\* The callers come in order.
MayBegin(c) == pc[c] = "idle" /\ \A d \in Callers : d < c => pc[d] # "idle"

\* SendMethodCall: the is_running_ check.
SendMethodCall(c) ==
  /\ MayBegin(c)
  /\ IF SendNotRunning
       THEN /\ pc' = [pc EXCEPT ![c] = "done"]
            /\ result' = [result EXCEPT ![c] = NotRunning]
       ELSE /\ pc' = [pc EXCEPT ![c] = "alloc"]
            /\ result' = result
  /\ UNCHANGED <<tvars, evars, id_of, st_pc, sd_pc, w_pc, hvars>>
  /\ UNCHANGED dvars

\* SendNotification: the is_running_ check.
SendNotification(c) ==
  /\ MayBegin(c)
  /\ IF SendNotRunning
       THEN /\ pc' = [pc EXCEPT ![c] = "done"]
            /\ result' = [result EXCEPT ![c] = NotifyNotRunning]
       ELSE /\ pc' = [pc EXCEPT ![c] = "nsend"]
            /\ result' = result
  /\ UNCHANGED <<tvars, evars, id_of, st_pc, sd_pc, w_pc, hvars>>
  /\ UNCHANGED dvars

\* SendMethodCall: take the next id, create the PendingRequest and post the
\* lambda that installs it.
CallPost(c) ==
  /\ pc[c] = "alloc"
  /\ id_of' = [id_of EXCEPT ![c] = next_request_id]
  /\ next_request_id' = GetNextRequestId(next_request_id)
  /\ strand' = Append(strand, Task("install", c, NoRes))
  /\ pc' = [pc EXCEPT ![c] = "send"]
  /\ UNCHANGED <<tvars, is_running, pending_requests, message_loop, loop_pc,
                 loop_msg, loop_found, pr, result, st_pc, sd_pc, w_pc, hvars>>
  /\ UNCHANGED dvars

\* transport_->SendMessage(m) called by s: rejected by the state checks, or
\* accepted (queued by the pipe transport, whose SendMessage then returns
\* success; written by the calling coroutine in the socket transport).
\* sent is the caller's position after a successful send, ret its result then.
TransportSend(s, m, sent, ret) ==
  IF SendMessageCheck # "ok"
    THEN /\ pc' = [pc EXCEPT ![s] = "done"]
         /\ result' = [result EXCEPT ![s] = TransportError]
         /\ UNCHANGED tvars
    ELSE IF kind = "pipe"
      THEN /\ PipeSendMessage(m)
           /\ pc' = [pc EXCEPT ![s] = sent]
           /\ result' = [result EXCEPT ![s] = ret]
      ELSE /\ SocketSendStart(s, m)
           /\ pc' = [pc EXCEPT ![s] = "writing"]
           /\ result' = result

\* SocketTransport::SendMessage: the async_write of s goes on, and returns.
TransportWrite(s, sent, ret) ==
  /\ SocketWriteSome(s)
  /\ pc' = [pc EXCEPT ![s] =
              CASE SocketWriteOutcome(s) = "more" -> "writing"
                [] SocketWriteOutcome(s) = "ok" -> sent
                [] OTHER -> "done"]
  /\ result' = [result EXCEPT ![s] =
              CASE SocketWriteOutcome(s) = "more" -> @
                [] SocketWriteOutcome(s) = "ok" -> ret
                [] OTHER -> TransportError]

\* SendMethodCall: co_await transport_->SendMessage(message).
CallSend(c) ==
  /\ pc[c] = "send"
  /\ TransportSend(c, Msg(c, id_of[c], 1), "sent", NoRes)
  /\ UNCHANGED <<evars, id_of, st_pc, sd_pc, w_pc, hvars>>
  /\ UNCHANGED dvars

\* A SendNotification that takes a request id for its message.
NotifySendConsumingId(c) ==
  /\ pc[c] = "nsend"
  /\ TransportSend(c, Msg(c, -1, 1), "done", Ok)
  /\ next_request_id' = GetNextRequestId(next_request_id)
  /\ UNCHANGED <<is_running, pending_requests, message_loop, strand, loop_pc,
                 loop_msg, loop_found, pr, id_of, st_pc, sd_pc, w_pc, hvars>>
  /\ UNCHANGED dvars

\* SendNotification: co_await transport_->SendMessage(message).
NotifySend(c) ==
  /\ pc[c] = "nsend"
  /\ TransportSend(c, Msg(c, -1, 1), "done", Ok)
  /\ UNCHANGED <<evars, id_of, st_pc, sd_pc, w_pc, hvars>>
  /\ UNCHANGED dvars

\* The async_write of a request or of a notification.
SendWrite(c) ==
  /\ pc[c] = "writing"
  /\ IF sock_write[c].m.id >= 0
       THEN TransportWrite(c, "sent", NoRes)
       ELSE TransportWrite(c, "done", Ok)
  /\ UNCHANGED <<evars, id_of, st_pc, sd_pc, w_pc, hvars>>
  /\ UNCHANGED dvars

\* SendMethodCall after the send: GetResult polls is_ready_; an "error"
\* member becomes a ClientError with its message, else "result" is returned.
GetResult(c) ==
  /\ pc[c] = "sent"
  /\ pr[c].is_ready
  /\ pc' = [pc EXCEPT ![c] = "done"]
  /\ result' = [result EXCEPT ![c] =
       IF pr[c].result.kind = "error"
         THEN Ret("client_error", -1, -32099, pr[c].result.msg)
         ELSE Ret("ok", pr[c].result.id, pr[c].result.n, "")]
  /\ UNCHANGED <<tvars, evars, id_of, st_pc, sd_pc, w_pc, hvars>>
  /\ UNCHANGED dvars

\* ------------------------------------------------------------- peer
\* The peer answers a request it has received (again, if it likes).
PeerRespond ==
  /\ responses < MaxResponses
  /\ socket_open /\ ~peer_gone
  /\ \E m \in Received :
       /\ m.id >= 0
       /\ inbox' = Append(inbox, Resp(m.id, responses + 1))
  /\ responses' = responses + 1
  /\ UNCHANGED <<kind, is_started, is_closed, is_connected, socket_open,
                 peer_gone, send_queue, sending, cur, sock_write, wire,
                 accepted, evars, uvars, starts, phase, st_res, resolutions,
                 cancelled>>
  /\ UNCHANGED dvars

\* The peer resets the connection.
PeerReset ==
  /\ socket_open /\ ~peer_gone
  /\ peer_gone' = TRUE
  /\ UNCHANGED <<kind, is_started, is_closed, is_connected, socket_open,
                 send_queue, sending, cur, sock_write, wire, accepted, inbox,
                 evars, uvars, hvars>>
  /\ UNCHANGED dvars

PipeLoop ==
  /\ PipeLoopWrite
  /\ UNCHANGED <<evars, uvars, hvars>>
  /\ UNCHANGED dvars

Next ==
  \/ StartCall
  \/ StartFinish
  \/ WaitCall
  \/ ShutdownCall
  \/ ShutdownClose
  \/ RunInstall
  \/ RunSetResult
  \/ RunLookup
  \/ RunShutdown
  \/ LoopCheck
  \/ ReadComplete
  \/ ReadError
  \/ RetryDelay
  \/ LoopHandle
  \/ LoopResolve
  \/ \E c \in Callers : SendMethodCall(c)
  \/ \E c \in Callers : SendNotification(c)
  \/ \E c \in Callers : CallPost(c)
  \/ \E c \in Callers : CallSend(c)
  \/ \E c \in Callers : NotifySend(c)
  \/ \E c \in Callers : SendWrite(c)
  \/ \E c \in Callers : GetResult(c)
  \/ PipeLoop
  \/ PeerRespond
  \/ PeerReset

Spec == Init /\ [][Next]_vars

\* The io_context keeps running: posted tasks, timers and I/O completions are
\* eventually executed, and the coroutines of the callers are resumed.  What
\* the users and the peer do is not forced.
Fairness ==
  /\ WF_vars(StartFinish)
  /\ WF_vars(ShutdownClose)
  /\ WF_vars(RunInstall)
  /\ WF_vars(RunSetResult)
  /\ WF_vars(RunLookup)
  /\ WF_vars(RunShutdown)
  /\ WF_vars(LoopCheck)
  /\ WF_vars(ReadComplete)
  /\ WF_vars(ReadError)
  /\ WF_vars(RetryDelay)
  /\ WF_vars(LoopHandle)
  /\ WF_vars(LoopResolve)
  /\ \A c \in Callers : WF_vars(CallPost(c))
  /\ \A c \in Callers : WF_vars(CallSend(c))
  /\ \A c \in Callers : WF_vars(NotifySend(c))
  /\ \A c \in Callers : WF_vars(SendWrite(c))
  /\ \A c \in Callers : WF_vars(GetResult(c))
  /\ WF_vars(PipeLoop)

FairSpec == Spec /\ Fairness

\* A peer that sends nothing and does not close: the receive of the message
\* loop completes only when the socket is closed under it.
QuietNext ==
  \/ StartCall
  \/ StartFinish
  \/ WaitCall
  \/ ShutdownCall
  \/ ShutdownClose
  \/ RunInstall
  \/ RunSetResult
  \/ RunShutdown
  \/ LoopCheck
  \/ ReadError
  \/ RetryDelay
  \/ \E c \in Callers : SendMethodCall(c)
  \/ \E c \in Callers : SendNotification(c)
  \/ \E c \in Callers : CallPost(c)
  \/ \E c \in Callers : CallSend(c)
  \/ \E c \in Callers : NotifySend(c)
  \/ \E c \in Callers : SendWrite(c)
  \/ \E c \in Callers : GetResult(c)
  \/ PipeLoop

QuietSpec == Init /\ [][QuietNext]_vars /\ Fairness

\* ------------------------------------------------------------- transport alone
\* A transport used directly: Start(), concurrent SendMessage calls with
\* messages of one to MaxChunks write units, Close(), and a peer that may
\* reset the connection.
TransportStartCall ==
  /\ st_pc = "idle"
  /\ \E connected \in BOOLEAN : TransportStart(connected)
  /\ UNCHANGED <<evars, uvars, hvars>>
  /\ UNCHANGED dvars

TransportSendCall(c) ==
  /\ pc[c] = "idle"
  /\ \E len \in 1..MaxChunks : TransportSend(c, Msg(c, -1, len), "done", Ok)
  /\ UNCHANGED <<evars, id_of, st_pc, sd_pc, w_pc, hvars>>
  /\ UNCHANGED dvars

TransportCloseCall ==
  /\ sd_pc = "idle"
  /\ TransportClose
  /\ UNCHANGED <<evars, uvars, hvars>>
  /\ UNCHANGED dvars

TransportNext ==
  \/ TransportStartCall
  \/ \E c \in Callers : TransportSendCall(c)
  \/ \E c \in Callers : SendWrite(c)
  \/ PipeLoop
  \/ TransportCloseCall
  \/ PeerReset

TransportSpec == Init /\ [][TransportNext]_vars


\* ------------------------------------------------------------- transport calls in any state
\* A transport whose operations are called in any state and any order:
\* Start(), SendMessage, ReceiveMessage, Close() and CloseNow().  st_res is
\* what the last Start() returned, result[c] what the SendMessage of c
\* returned, loop_pc the position of the one reader and loop_msg the error
\* its last ReceiveMessage returned at once.
\* What Start() returns.
TransportStartResult(connected) ==
  CASE TransportStartCheck = "already_started" -> "already_started"
    [] TransportStartCheck = "closed" -> "closed"
    [] OTHER -> IF connected THEN "ok" ELSE "connect_failed"

TransportStartReturn ==
  /\ \E connected \in BOOLEAN :
       /\ TransportStart(connected)
       /\ st_res' = TransportStartResult(connected)
  /\ UNCHANGED <<evars, uvars, starts, phase, resolutions, cancelled,
                 responses>>
  /\ UNCHANGED dvars

\* ReceiveMessage: the state checks, then async_read_some.
TransportReceiveCall ==
  /\ loop_pc \in {"none", "retry"}
  /\ loop_pc' = IF ReceiveMessageCheck = "ok" THEN "reading" ELSE "retry"
  /\ loop_msg' = IF ReceiveMessageCheck = "ok" THEN NoRes ELSE TransportError
  /\ UNCHANGED <<tvars, is_running, pending_requests, next_request_id,
                 message_loop, strand, loop_found, pr, uvars, hvars>>
  /\ UNCHANGED dvars

TransportCloseNowCall ==
  /\ TransportCloseNow
  /\ UNCHANGED <<evars, uvars, hvars>>
  /\ UNCHANGED dvars

TransportCallsNext ==
  \/ TransportStartReturn
  \/ \E c \in Callers : TransportSendCall(c)
  \/ \E c \in Callers : SendWrite(c)
  \/ PipeLoop
  \/ TransportReceiveCall
  \/ ReadError
  \/ TransportCloseCall
  \/ TransportCloseNowCall

TransportCallsSpec == Init /\ [][TransportCallsNext]_vars


\* ------------------------------------------------------------- transport closed while it starts
\* Start() followed across its suspension: it checks is_started_ and
\* is_closed_ on the strand, then awaits the resolve and connect (client) or
\* the accept (server) and leaves the strand to Close(), CloseNow() and the
\* I/O completions until the operation completes.

\* Start() up to the co_await inside Connect() / BindAndListen().
TransportStartBegin ==
  /\ connect_pc = "idle"
  /\ IF TransportStartCheck = "connect"
       THEN /\ connect_pc' = "connecting"
            /\ st_res' = "none"
       ELSE /\ connect_pc' = connect_pc
            /\ st_res' = TransportStartCheck
  /\ UNCHANGED <<tvars, evars, uvars, starts, phase, resolutions, cancelled,
                 responses>>
  /\ UNCHANGED <<handlers, request_str, reply, served, inbound, payloads,
                 stream, buffer, framer, last, received, rx_pc, parsed>>

\* The completion of the connect or accept: an error code or success.  A
\* Close() in between cancels an operation that is still pending on the
\* socket or acceptor (error); it does not reach one that has completed
\* already, nor the resolver of the socket client (success).
ConnectOutcomes == BOOLEAN

\* Start() from the completion on: `if (ec)` returns the error, else
\* is_connected_ = true and, back in Start(), is_started_ = true.
TransportConnectComplete ==
  /\ connect_pc = "connecting"
  /\ connect_pc' = "idle"
  /\ \E connected \in ConnectOutcomes :
       IF connected
         THEN /\ is_connected' = TRUE
              /\ is_started' = TRUE
              /\ socket_open' = (~is_closed \/ kind = "socket")
              /\ st_res' = "ok"
         ELSE /\ UNCHANGED <<is_connected, is_started, socket_open>>
              /\ st_res' = "connect_failed"
  /\ UNCHANGED <<kind, is_closed, peer_gone, send_queue, sending, cur,
                 sock_write, wire, accepted, inbox>>
  /\ UNCHANGED <<evars, uvars, starts, phase, resolutions, cancelled,
                 responses>>
  /\ UNCHANGED <<handlers, request_str, reply, served, inbound, payloads,
                 stream, buffer, framer, last, received, rx_pc, parsed>>

TransportRaceNext ==
  \/ TransportStartBegin
  \/ TransportConnectComplete
  \/ \E c \in Callers : TransportSendCall(c)
  \/ \E c \in Callers : SendWrite(c)
  \/ PipeLoop
  \/ TransportReceiveCall
  \/ ReadError
  \/ TransportCloseCall
  \/ TransportCloseNowCall

TransportRaceSpec == Init /\ [][TransportRaceNext]_vars


\* ------------------------------------------------------------- dispatcher alone
\* A Dispatcher used directly: handlers are registered, then DispatchRequest
\* is called once with a text drawn from RawMessages.
DispatchInit ==
  \E request \in RawMessages : InitWith(request) /\ kind = "socket"

DoRegisterMethodCall(method, throws) ==
  /\ reply = NoReply
  /\ RegisterMethodCall(method, MethodCallHandler(throws))
  /\ UNCHANGED <<tvars, evars, uvars, hvars, request_str, reply, served,
                 inbound, fvars>>

DoRegisterNotification(method, throws) ==
  /\ reply = NoReply
  /\ RegisterNotification(method, NotificationHandler(throws))
  /\ UNCHANGED <<tvars, evars, uvars, hvars, request_str, reply, served,
                 inbound, fvars>>

DoDispatchRequest ==
  /\ reply = NoReply
  /\ reply' = DispatchRequest(request_str)
  /\ UNCHANGED <<tvars, evars, uvars, hvars, handlers, request_str, served,
                 inbound, fvars>>

DispatchNext ==
  \/ \E m \in Methods, t \in BOOLEAN : DoRegisterMethodCall(m, t)
  \/ \E m \in Methods, t \in BOOLEAN : DoRegisterNotification(m, t)
  \/ DoDispatchRequest

DispatchSpec == DispatchInit /\ [][DispatchNext]_vars


\* ------------------------------------------------------------- serving
\* An endpoint that serves its peer: handlers are registered, the endpoint
\* is started and WaitForShutdown() awaited; the peer sends up to MaxInbound
\* texts drawn from ServedMessages.
Call(method, n) ==
  [is_object |-> TRUE, jsonrpc |-> "2.0", method_t |-> "string",
   method |-> method, id |-> IntId(n), params_t |-> "absent"]
Notification(method) ==
  [is_object |-> TRUE, jsonrpc |-> "2.0", method_t |-> "string",
   method |-> method, id |-> NoId, params_t |-> "absent"]
ServedMessages ==
  {InvalidJson, Single(Call("sum", 1)), Single(Notification("log")),
   Batch(<<Call("sum", 2), NonObject>>)}

ServeRegisterMethodCall(method, throws) ==
  /\ starts = 0
  /\ DoRegisterMethodCall(method, throws)

ServeRegisterNotification(method, throws) ==
  /\ starts = 0
  /\ DoRegisterNotification(method, throws)

\* The peer sends a text.
PeerSend ==
  /\ inbound < MaxInbound
  /\ socket_open /\ ~peer_gone
  /\ \E body \in ServedMessages : inbox' = Append(inbox, Text(body))
  /\ inbound' = inbound + 1
  /\ UNCHANGED <<kind, is_started, is_closed, is_connected, socket_open,
                 peer_gone, send_queue, sending, cur, sock_write, wire,
                 accepted, evars, uvars, hvars, handlers, request_str, reply,
                 served, fvars>>

ServeNext ==
  \/ \E m \in Methods, t \in BOOLEAN : ServeRegisterMethodCall(m, t)
  \/ \E m \in Methods, t \in BOOLEAN : ServeRegisterNotification(m, t)
  \/ StartCall
  \/ StartFinish
  \/ WaitCall
  \/ LoopCheck
  \/ ReadComplete
  \/ RetryDelay
  \/ LoopDispatch
  \/ LoopReplyWrite
  \/ PipeLoop
  \/ PeerSend

\* The io_context keeps running; what the user and the peer do is not forced.
ServeFairness ==
  /\ WF_vars(StartFinish)
  /\ WF_vars(LoopCheck)
  /\ WF_vars(ReadComplete)
  /\ WF_vars(RetryDelay)
  /\ WF_vars(LoopDispatch)
  /\ WF_vars(LoopReplyWrite)
  /\ WF_vars(PipeLoop)

ServeSpec == Init /\ [][ServeNext]_vars /\ ServeFairness


\* ------------------------------------------------------------- two endpoints
\* A calling endpoint whose peer is a serving endpoint: `handlers` is the
\* registry of the serving endpoint's dispatcher, which answers every call
\* it has received through DispatchRequest; the calling endpoint reads the
\* answer as a response.
\* Response::ToJson on the serving side, read by the calling side: the
\* member the text carries, its id, and the value under "result".
ToResponseText(response, n) ==
  ResponseText(response.kind, response.id.t, response.id.v, n,
               response.message, response.result, TRUE)

\* The serving endpoint registers a handler that returns the error object.
RegisterErrorObjectHandler ==
  /\ starts = 0
  /\ handlers["sum"] = NoHandler
  /\ RegisterMethodCall("sum", ErrorObjectHandler)
  /\ UNCHANGED <<tvars, evars, uvars, hvars, request_str, reply, served,
                 inbound, fvars>>

\* The serving endpoint dispatches a call it has received and sends the
\* response.
PeerDispatch ==
  /\ responses < MaxResponses
  /\ socket_open /\ ~peer_gone
  /\ \E m \in Received :
       /\ m.id >= 0
       /\ DispatchRequest(Single(Call("sum", m.id))).t = "some"
       /\ inbox' = Append(inbox,
            ToResponseText(DispatchRequest(Single(Call("sum", m.id))).v,
                           responses + 1))
  /\ responses' = responses + 1
  /\ UNCHANGED <<kind, is_started, is_closed, is_connected, socket_open,
                 peer_gone, send_queue, sending, cur, sock_write, wire,
                 accepted, evars, uvars, starts, phase, st_res, resolutions,
                 cancelled>>
  /\ UNCHANGED dvars

CallNext ==
  \/ RegisterErrorObjectHandler
  \/ StartCall
  \/ StartFinish
  \/ WaitCall
  \/ RunInstall
  \/ RunSetResult
  \/ RunLookup
  \/ LoopCheck
  \/ ReadComplete
  \/ RetryDelay
  \/ LoopHandle
  \/ LoopResolve
  \/ \E c \in Callers : SendMethodCall(c)
  \/ \E c \in Callers : CallPost(c)
  \/ \E c \in Callers : CallSend(c)
  \/ \E c \in Callers : SendWrite(c)
  \/ \E c \in Callers : GetResult(c)
  \/ PipeLoop
  \/ PeerDispatch

CallSpec == Init /\ [][CallNext]_vars


\* ------------------------------------------------------------- responses of any shape
\* A calling endpoint whose peer sends up to MaxInbound responses of every
\* shape: well-formed ones, ones that Response's validation rejects, ones
\* with a null, a string or no id.  One caller makes the calls.
\* A response object without "id" (and, as a response, without "method"),
\* with or without the "jsonrpc" member.
ResponseWithoutId(version) ==
  Text(Single([is_object |-> TRUE, jsonrpc |-> version, method_t |-> "absent",
               method |-> "", id |-> NoId, params_t |-> "absent"]))

SentResponses(n) ==
  {ResponseText("result", "integer", i, n, "", "value", v) :
     i \in 0..1, v \in BOOLEAN}
  \cup {ResponseText("result", t, -1, n, "", "value", TRUE) :
          t \in {"null", "string"}}
  \cup {ResponseWithoutId(v) : v \in {"2.0", "absent"}}

PeerSendResponse ==
  /\ inbound < MaxInbound
  /\ socket_open /\ ~peer_gone
  /\ \E m \in SentResponses(inbound + 1) : inbox' = Append(inbox, m)
  /\ inbound' = inbound + 1
  /\ UNCHANGED <<kind, is_started, is_closed, is_connected, socket_open,
                 peer_gone, send_queue, sending, cur, sock_write, wire,
                 accepted, evars, uvars, hvars, handlers, request_str, reply,
                 served, fvars>>

ResponseNext ==
  \/ StartCall
  \/ StartFinish
  \/ WaitCall
  \/ RunInstall
  \/ RunSetResult
  \/ RunLookup
  \/ LoopCheck
  \/ ReadComplete
  \/ RetryDelay
  \/ LoopHandle
  \/ LoopResolve
  \/ LoopDispatch
  \/ LoopReplyWrite
  \/ \E c \in {1} : SendMethodCall(c)
  \/ \E c \in {1} : CallPost(c)
  \/ \E c \in {1} : CallSend(c)
  \/ \E c \in {1} : SendWrite(c)
  \/ \E c \in {1} : GetResult(c)
  \/ PipeLoop
  \/ PeerSendResponse

ResponseSpec == Init /\ [][ResponseNext]_vars


\* ------------------------------------------------------------- start/stop cycles
\* One user runs up to MaxCycles cycles on an endpoint: Start(), then
\* Shutdown(), each called when the other has returned; WaitForShutdown()
\* may be awaited meanwhile.
CycleStart ==
  /\ sd_pc = "idle"
  /\ StartWithin(MaxCycles)

CycleStop ==
  /\ st_pc = "idle"
  /\ ShutdownCall

CycleNext ==
  \/ CycleStart
  \/ StartFinish
  \/ WaitCall
  \/ CycleStop
  \/ RunShutdown
  \/ ShutdownClose
  \/ LoopCheck
  \/ ReadError
  \/ RetryDelay

CycleSpec == Init /\ [][CycleNext]_vars


\* ------------------------------------------------------------- an endpoint started again
\* One caller on an endpoint whose user may call Start() once more than
\* MaxStarts times, at any moment: also while a Shutdown() is under way and
\* a call is pending.
RestartCall == StartWithin(MaxStarts + 1)

RestartNext ==
  \/ RestartCall
  \/ StartFinish
  \/ WaitCall
  \/ ShutdownCall
  \/ ShutdownClose
  \/ RunInstall
  \/ RunSetResult
  \/ RunLookup
  \/ RunShutdown
  \/ LoopCheck
  \/ ReadComplete
  \/ ReadError
  \/ RetryDelay
  \/ LoopHandle
  \/ LoopResolve
  \/ \E c \in {1} : SendMethodCall(c)
  \/ \E c \in {1} : CallPost(c)
  \/ \E c \in {1} : CallSend(c)
  \/ \E c \in {1} : SendWrite(c)
  \/ \E c \in {1} : GetResult(c)
  \/ PipeLoop
  \/ PeerRespond

RestartSpec == Init /\ [][RestartNext]_vars


\* ------------------------------------------------------------- framer alone
\* A fresh MessageFramer is given the frame of one payload drawn from
\* Payloads, whole, in one TryDeframe call.
FrameInit == \E p \in Payloads : InitOf(NoRequest, <<p>>) /\ kind = "pipe"

DeframeFrame ==
  /\ rx_pc = "idle"
  /\ stream # <<>>
  /\ buffer' = stream
  /\ stream' = <<>>
  /\ last' = TryDeframe(framer, stream).result
  /\ framer' = TryDeframe(framer, stream).framer
  /\ received' = IF TryDeframe(framer, stream).result.complete
                   THEN Append(received,
                               TryDeframe(framer, stream).result.message)
                   ELSE received
  /\ rx_pc' = "done"
  /\ UNCHANGED <<tvars, evars, uvars, hvars, handlers, request_str, reply,
                 served, inbound, parsed, connect_pc, payloads>>

FrameNext == DeframeFrame

FrameSpec == FrameInit /\ [][FrameNext]_vars

\* ------------------------------------------------------------- framer on a chunked stream
\* The frames of one to MaxMessages payloads drawn from StreamPayloads reach
\* a caller in chunks of any size.  The caller appends a chunk to its buffer
\* and calls TryDeframe; on a complete result it takes the message, drops
\* consumed_bytes from the buffer and calls again.
StreamPayloads ==
  {<<>>, <<"a">>, CRLF \o CRLF, [i \in 1..LongLen |-> "1"]}
PayloadSeqs == UNION {[1..n -> StreamPayloads] : n \in 1..MaxMessages}

ChunkInit == \E ps \in PayloadSeqs : InitOf(NoRequest, ps) /\ kind = "pipe"

AppendChunk ==
  /\ rx_pc = "idle"
  /\ \E n \in 1..Len(stream) :
       /\ buffer' = buffer \o SubSeq(stream, 1, n)
       /\ stream' = SubSeq(stream, n + 1, Len(stream))
  /\ rx_pc' = "deframe"
  /\ UNCHANGED <<tvars, evars, uvars, hvars, handlers, request_str, reply,
                 served, inbound, parsed, connect_pc, payloads, framer, last, received>>

DeframeCall ==
  /\ rx_pc = "deframe"
  /\ last' = TryDeframe(framer, buffer).result
  /\ framer' = TryDeframe(framer, buffer).framer
  /\ IF TryDeframe(framer, buffer).result.complete
       THEN /\ received' =
                 Append(received, TryDeframe(framer, buffer).result.message)
            /\ buffer' =
                 Substr(buffer,
                        TryDeframe(framer, buffer).result.consumed_bytes,
                        Len(buffer))
            /\ rx_pc' = "deframe"
       ELSE /\ rx_pc' = "idle"
            /\ UNCHANGED <<received, buffer>>
  /\ UNCHANGED <<tvars, evars, uvars, hvars, handlers, request_str, reply,
                 served, inbound, parsed, connect_pc, payloads, stream>>

ChunkNext ==
  \/ AppendChunk
  \/ DeframeCall

ChunkSpec == ChunkInit /\ [][ChunkNext]_vars

\* ------------------------------------------------------------- framed pipe transport
\* The peer's FramedPipeTransport has sent one to MaxMessages messages, each
\* framed by FrameMessage; stream holds the bytes the receiver's socket has
\* not yet handed out.  A read on the socket hands out any number of them.
\* FramedTransport::FrameMessage writes what MessageFramer::Frame writes
\* with its default content type.
FrameMessage(message) == Frame(message, DefaultContentType)

\* value.erase(0, value.find_first_not_of(" \t")).
RECURSIVE TrimLeft(_)
TrimLeft(value) ==
  IF value # <<>> /\ Head(value) \in {" ", "\t"} THEN TrimLeft(Tail(value))
  ELSE value

\* The loop of ReadHeadersFromBuffer: the lines up to the first one that is
\* empty or "\r", the trailing '\r' removed, split at the first ':'.  The
\* map is the sequence of its assignments, the last one of a key being its
\* entry.
RECURSIVE HeaderLines(_)
HeaderLines(lines) ==
  IF lines = <<>> \/ Head(lines) = <<>> \/ Head(lines) = <<CR>> THEN <<>>
  ELSE LET line == IF Head(lines)[Len(Head(lines))] = CR
                     THEN SubSeq(Head(lines), 1, Len(Head(lines)) - 1)
                     ELSE Head(lines)
           colon_pos == FindIn(line, <<":">>)
       IN (IF colon_pos = Npos THEN <<>>
           ELSE <<[key |-> Substr(line, 0, colon_pos),
                   value |-> TrimLeft(Substr(line, colon_pos + 1,
                                             Len(line)))]>>)
            \o HeaderLines(Tail(lines))

\* FramedPipeTransport::ReadHeadersFromBuffer: the headers, and the buffer
\* after consume(pos + 4).
ReadHeadersFromBuffer(buf) ==
  LET pos == FindIn(buf, CRLF \o CRLF)
  IN IF pos = Npos THEN [headers |-> <<>>, buffer |-> buf]
     ELSE [headers |-> HeaderLines(GetLines(Substr(buf, 0, pos))),
           buffer |-> Substr(buf, pos + 4, Len(buf))]

\* FramedPipeTransport::ReadContentLength.
ReadContentLength(headers) ==
  LET at == {i \in 1..Len(headers) :
               headers[i].key = SubSeq(ContentLengthName, 1, 14)}
  IN IF at = {} THEN 0
     ELSE LET it == headers[CHOOSE i \in at : \A j \in at : j <= i]
          IN IF Stoi(it.value).ok THEN Stoi(it.value).value ELSE 0

\* What ReadContent reads from the socket: nothing when the buffer holds
\* content_length bytes or more, the missing bytes otherwise.
ToRead(buf, content_length) ==
  IF Len(buf) < content_length THEN content_length - Len(buf) ELSE 0

\* A ReadContent that takes the content from the start of the buffer.
ReadContentFromStart(buf, content_length) ==
  Substr(buf, 0, content_length)

\* FramedPipeTransport::ReadContent on a buffer of content_length bytes or
\* more: the content_length bytes before the end of the buffer.
ReadContent(buf, content_length) ==
  Substr(buf, Len(buf) - content_length, content_length)

\* The messages sent are JSON texts, none of them empty.
SentSeqs == {ps \in PayloadSeqs : \A i \in 1..Len(ps) : ps[i] # <<>>}

FramedInit == \E ps \in SentSeqs : InitOf(NoRequest, ps) /\ kind = "pipe"

\* ReceiveMessage is called: its buffer is a new, empty one.
ReceiveMessageCall ==
  /\ rx_pc = "idle"
  /\ stream # <<>>
  /\ buffer' = <<>>
  /\ rx_pc' = "headers"
  /\ UNCHANGED <<tvars, evars, uvars, hvars, handlers, request_str, reply,
                 served, inbound, parsed, connect_pc, payloads, stream, framer, last, received>>

\* ReadHeaders: async_read_until reads until the buffer holds "\r\n\r\n";
\* one read hands out any number of the bytes that have arrived.
ReadHeaders ==
  /\ rx_pc = "headers"
  /\ FindIn(buffer, CRLF \o CRLF) = Npos
  /\ \E n \in 1..Len(stream) :
       /\ buffer' = buffer \o SubSeq(stream, 1, n)
       /\ stream' = SubSeq(stream, n + 1, Len(stream))
  /\ UNCHANGED <<tvars, evars, uvars, hvars, handlers, request_str, reply,
                 served, inbound, parsed, connect_pc, payloads, framer, last, received, rx_pc>>

\* ReceiveMessage once ReadHeaders has completed: the headers are parsed and
\* consumed, a content length that is not positive throws, ReadContent reads
\* the bytes the buffer lacks, takes the content and returns it.  The buffer
\* ends with the call.
ReceiveMessageReturn ==
  /\ rx_pc = "headers"
  /\ FindIn(buffer, CRLF \o CRLF) # Npos
  /\ LET hdrs == ReadHeadersFromBuffer(buffer)
         content_length == ReadContentLength(hdrs.headers)
         n == ToRead(hdrs.buffer, content_length)
         content == ReadContent(hdrs.buffer \o SubSeq(stream, 1, n),
                                content_length)
     IN IF content_length <= 0
          THEN /\ last' = DeframeResult(FALSE, <<>>, 0,
                                        "Invalid content length")
               /\ UNCHANGED <<stream, received>>
          ELSE /\ n <= Len(stream)
               /\ stream' = SubSeq(stream, n + 1, Len(stream))
               /\ received' = Append(received, content)
               /\ last' = DeframeResult(TRUE, content, content_length, "")
  /\ buffer' = <<>>
  /\ rx_pc' = "idle"
  /\ UNCHANGED <<tvars, evars, uvars, hvars, handlers, request_str, reply,
                 served, inbound, parsed, connect_pc, payloads, framer>>

FramedNext ==
  \/ ReceiveMessageCall
  \/ ReadHeaders
  \/ ReceiveMessageReturn

FramedSpec == FramedInit /\ [][FramedNext]_vars

\* ------------------------------------------------------------- framer on any header block
\* The stream starts with a header block of up to MaxHeaderLines lines, each
\* ended by "\r\n", and the empty line; the lines are a Content-Length with
\* a number, with a text, with a sign alone or with nothing, a
\* Content-Type, and a content-length in lower case.  The caller is the one
\* of the chunked stream.
HeaderLineSet ==
  {ContentLengthName \o <<" ", "1">>,
   ContentLengthName \o <<" ", "a">>,
   ContentLengthName \o <<" ", "-">>,
   ContentLengthName,
   ContentTypeName \o <<" ", "a">>,
   <<"c">> \o SubSeq(ContentLengthName, 2, 15) \o <<" ", "1">>}
HeaderSeqs == UNION {[1..n -> HeaderLineSet] : n \in 0..MaxHeaderLines}
RECURSIVE HeaderBlock(_)
HeaderBlock(lines) ==
  IF lines = <<>> THEN CRLF
  ELSE Head(lines) \o CRLF \o HeaderBlock(Tail(lines))

HeaderInit ==
  \E lines \in HeaderSeqs, body \in {<<>>, <<"a">>} :
    InitBytes(NoRequest, <<>>, HeaderBlock(lines) \o body) /\ kind = "pipe"

HeaderSpec == HeaderInit /\ [][ChunkNext]_vars

\* ------------------------------------------------------------- framer on any integer Content-Length
\* The stream is one header block with a Content-Length whose value is an
\* integer as std::stoi reads it (with a sign, or followed by a character
\* that is no digit), and a body of up to MaxBody bytes.
MaxBody == 2
LengthValues ==
  {<<"0">>, <<"1">>, <<"2">>, <<"+", "1">>, <<"-", "1">>, <<"-", "2">>,
   <<"1", "a">>, <<"-", "1", "a">>}
Bodies == UNION {[1..n -> {"a", "b"}] : n \in 0..MaxBody}
LengthHeader(value) == ContentLengthName \o <<" ">> \o value

SignedInit ==
  \E value \in LengthValues, body \in Bodies :
    /\ InitBytes(NoRequest, <<>>, HeaderBlock(<<LengthHeader(value)>>) \o body)
    /\ kind = "pipe"

SignedSpec == SignedInit /\ [][ChunkNext]_vars

\* ------------------------------------------------------------- framed pipe transport, any header block
\* A FramedPipeTransport is started, sends messages and receives a stream
\* that starts with a header block of at most one line that need not be
\* well formed.
FramedErrorInit ==
  \E lines \in {h \in HeaderSeqs : Len(h) <= 1}, body \in {<<>>, <<"a">>} :
    InitBytes(NoRequest, <<>>, HeaderBlock(lines) \o body) /\ kind = "pipe"

\* ReceiveMessage is called on the connected transport.
FramedReceiveCall ==
  /\ is_connected /\ socket_open
  /\ ReceiveMessageCall

FramedErrorNext ==
  \/ TransportStartReturn
  \/ \E c \in {1} : TransportSendCall(c)
  \/ PipeLoop
  \/ FramedReceiveCall
  \/ ReadHeaders
  \/ ReceiveMessageReturn

FramedErrorSpec == FramedErrorInit /\ [][FramedErrorNext]_vars

\* ------------------------------------------------------------- Request::FromJson alone
\* Request::FromJson is called on one JSON value: a non-object, or an object
\* whose "jsonrpc" is absent, "2.0", "1.0" or a number, whose "method" is
\* absent, a number or a string, whose "params" is absent or of any JSON
\* type, and whose "id" is absent, null, an integer, a string, a boolean or
\* a number with a fraction.
JsonIds ==
  RequestIds \cup {[t |-> k, v |-> 1] : k \in {"string", "boolean", "float"}}
JsonValues ==
  {NonObject}
    \cup {[is_object |-> TRUE, jsonrpc |-> v, method_t |-> m[1],
           method |-> m[2], id |-> i, params_t |-> p] :
            v \in {"absent", "2.0", "1.0", "number"},
            m \in {<<"absent", "">>, <<"number", "">>}
                    \cup {<<"string", n>> : n \in Methods},
            i \in JsonIds,
            p \in {"absent", "array", "object", "null", "string", "number",
                   "boolean"}}

FromJsonInit == \E v \in JsonValues : InitWith(Single(v)) /\ kind = "pipe"

FromJsonCall ==
  /\ parsed = NotParsed
  /\ parsed' = FromJson(request_str.elems[1])
  /\ UNCHANGED <<tvars, evars, uvars, hvars, handlers, request_str, reply,
                 served, inbound, payloads, stream, buffer, framer, last,
                 received, rx_pc, connect_pc>>

FromJsonSpec == FromJsonInit /\ [][FromJsonCall]_vars

\* ------------------------------------------------------------- a handler that calls back
\* An endpoint on a pipe that serves its peer and calls it: the handler of
\* "sum" calls SendMethodCall on the endpoint (as caller HandlerCaller) and
\* waits for it to return; the user awaits WaitForShutdown(), calls
\* SendMethodCall too (caller 1) and calls Shutdown().
\* The handler is a std::function that DispatchRequest runs inside the
\* coroutine of the message loop: until it returns, the loop is at
\* "handler" and its task stays at the head of the strand.
HandlerCaller == NumCallers

NestedInit == Init /\ kind = "pipe"

RegisterCallingHandler ==
  /\ starts = 0
  /\ handlers["sum"] = NoHandler
  /\ RegisterMethodCall("sum", CallingHandler)
  /\ UNCHANGED <<tvars, evars, uvars, hvars, request_str, reply, served,
                 inbound, fvars>>

\* The peer calls "sum".
PeerCall ==
  /\ inbound = 0
  /\ socket_open /\ ~peer_gone
  /\ inbox' = Append(inbox, Text(Single(Call("sum", 1))))
  /\ inbound' = inbound + 1
  /\ UNCHANGED <<kind, is_started, is_closed, is_connected, socket_open,
                 peer_gone, send_queue, sending, cur, sock_write, wire,
                 accepted, evars, uvars, hvars, handlers, request_str, reply,
                 served, fvars>>

\* The message in hand is a call of the handler that calls back.
CallsBack ==
  /\ HandleMessageRoute(loop_msg) = "dispatch"
  /\ loop_msg.body = Single(Call("sum", 1))
  /\ handlers["sum"] = CallingHandler

\* HandleMessage: DispatchRequest runs the handler, which begins its
\* SendMethodCall (the is_running_ check).
LoopHandlerBegin ==
  /\ HeadIs("loop")
  /\ loop_pc = "handle"
  /\ CallsBack
  /\ pc[HandlerCaller] = "idle"
  /\ loop_pc' = "handler"
  /\ IF SendNotRunning
       THEN /\ pc' = [pc EXCEPT ![HandlerCaller] = "done"]
            /\ result' = [result EXCEPT ![HandlerCaller] = NotRunning]
       ELSE /\ pc' = [pc EXCEPT ![HandlerCaller] = "alloc"]
            /\ result' = result
  /\ UNCHANGED <<tvars, is_running, pending_requests, next_request_id,
                 message_loop, strand, loop_msg, loop_found, pr, id_of, st_pc,
                 sd_pc, w_pc, hvars>>
  /\ UNCHANGED dvars

\* The call of the handler has returned: the handler returns, and
\* HandleMessage goes on with the response of DispatchRequest.
LoopHandlerReturn ==
  /\ HeadIs("loop")
  /\ loop_pc = "handler"
  /\ pc[HandlerCaller] = "done"
  /\ loop_pc' = "handle"
  /\ UNCHANGED <<tvars, is_running, pending_requests, next_request_id,
                 message_loop, strand, loop_msg, loop_found, pr, uvars, hvars>>
  /\ UNCHANGED dvars

\* HandleMessage on a text whose handler, if any, has returned.
NestedDispatch ==
  /\ ~(CallsBack /\ pc[HandlerCaller] = "idle")
  /\ LoopDispatch

NestedNext ==
  \/ RegisterCallingHandler
  \/ StartCall
  \/ StartFinish
  \/ WaitCall
  \/ ShutdownCall
  \/ ShutdownClose
  \/ RunShutdown
  \/ RunInstall
  \/ RunSetResult
  \/ RunLookup
  \/ LoopCheck
  \/ ReadComplete
  \/ ReadError
  \/ RetryDelay
  \/ LoopHandle
  \/ LoopResolve
  \/ LoopHandlerBegin
  \/ LoopHandlerReturn
  \/ NestedDispatch
  \/ SendMethodCall(1)
  \/ \E c \in Callers : CallPost(c)
  \/ \E c \in Callers : CallSend(c)
  \/ \E c \in Callers : GetResult(c)
  \/ PipeLoop
  \/ PeerCall
  \/ PeerRespond
  \/ PeerReset

\* The io_context keeps running; what the user and the peer do is not forced.
NestedFairness ==
  /\ WF_vars(StartFinish)
  /\ WF_vars(ShutdownClose)
  /\ WF_vars(RunShutdown)
  /\ WF_vars(RunInstall)
  /\ WF_vars(RunSetResult)
  /\ WF_vars(RunLookup)
  /\ WF_vars(LoopCheck)
  /\ WF_vars(ReadComplete)
  /\ WF_vars(ReadError)
  /\ WF_vars(RetryDelay)
  /\ WF_vars(LoopHandle)
  /\ WF_vars(LoopResolve)
  /\ WF_vars(LoopHandlerBegin)
  /\ WF_vars(LoopHandlerReturn)
  /\ WF_vars(NestedDispatch)
  /\ \A c \in Callers : WF_vars(CallPost(c))
  /\ \A c \in Callers : WF_vars(CallSend(c))
  /\ \A c \in Callers : WF_vars(GetResult(c))
  /\ WF_vars(PipeLoop)

NestedSpec == NestedInit /\ [][NestedNext]_vars /\ NestedFairness

\* ------------------------------------------------------------- properties
ShuttingDown == Ret("client_error", -1, -32099, "RPC endpoint shutting down")
HasEntry(c) == \E e \in pending_requests : e.req = c
IsCall(c) == id_of[c] >= 0
LoopExited == loop_pc \in {"none", "done"}

\* C1: every call that is awaiting its response (its entry is in the table)
\* when Shutdown() cancels the pending requests has its entry removed, its
\* slot resolved by the synthetic -32603 error and nothing else, and it
\* completes, with the ClientError "RPC endpoint shutting down": in the end
\* every such call has returned.
C1_ShutdownCancelsAwaitingCalls ==
  /\ [](\A c \in cancelled :
          /\ ~HasEntry(c)
          /\ pr[c].has_error
          /\ pr[c].is_ready =>
               pr[c].result = CancelError(-32603, "RPC endpoint shutting down")
          /\ pc[c] = "done" => result[c] = ShuttingDown)
  /\ <>[](\A c \in cancelled : pc[c] = "done")

C1_Witness ==
  \E c \in Callers : c \in cancelled /\ pc[c] = "done" /\ result[c] = ShuttingDown

\* C2: with a peer that sends nothing and does not close, once Shutdown()
\* has found the endpoint running, Shutdown() returns, the message loop exits
\* and WaitForShutdown() completes (unless a later Start() sets is_running_
\* again).
C2_ShutdownTerminates ==
  (sd_pc = "posted") ~>
     ((sd_pc = "idle" /\ LoopExited /\ w_pc = "idle") \/ phase = "restarted")

\* An outstanding call was never answered, WaitForShutdown() was awaiting
\* and the peer did not close; everything has come to an end.
C2_Witness ==
  /\ phase = "shutdown" /\ sd_pc = "idle" /\ is_closed
  /\ loop_pc = "done" /\ w_pc = "idle"
  /\ responses = 0 /\ ~peer_gone
  /\ \E c \in Callers : c \in cancelled /\ pc[c] = "done"

\* C3: a resolved slot never changes again, and SetResult is called at most
\* once per call (a later response or cancellation finds no entry).
C3_AtMostOneResolution ==
  /\ [][\A c \in Callers : pr[c].is_ready => pr'[c] = pr[c]]_vars
  /\ [](\A c \in Callers : resolutions[c] <= 1)

\* A second response with the id of a resolved call was looked up and dropped.
C3_Witness ==
  \E c \in Callers :
    /\ pr[c].is_ready
    /\ loop_pc = "resolve" /\ HeadIs("loop")
    /\ loop_msg.id = id_of[c] /\ loop_found = NoCaller

\* C4: a SendMethodCall that returned the transport's error, its request
\* having passed the transport's state checks and failed in the write, has
\* left no entry in the table.
C4_NoEntryAfterFailedSend ==
  \A c \in Callers :
    (/\ pc[c] = "done" /\ result[c] = TransportError
     /\ \E i \in 1..Len(accepted) : accepted[i].src = c)
      => ~HasEntry(c)

\* C5: a SendMethodCall or SendNotification that begins when Shutdown() has
\* cleared is_running_ returns its "... is not running" ClientError at once;
\* the transport, the id counter, the table and the strand are left as they
\* were.
C5_NotRunningAfterShutdown ==
  [][\A c \in Callers :
       (pc[c] = "idle" /\ pc'[c] # "idle" /\ ~is_running /\ phase # "fresh")
         => /\ pc'[c] = "done"
            /\ result'[c] \in {NotRunning, NotifyNotRunning}
            /\ UNCHANGED <<tvars, next_request_id, pending_requests, strand>>]_vars

C5_Witness ==
  \E c, d \in Callers :
    /\ pc[c] = "done" /\ result[c] = NotRunning
    /\ pc[d] = "done" /\ result[d] = NotifyNotRunning
    /\ phase = "shutdown"

\* C6: a Start() that finds the endpoint running returns "already running"
\* and leaves is_running_, the table, the transport, message_loop_, the loop
\* and the strand as they were.
C6_SecondStartRejected ==
  [][(st_pc = "idle" /\ is_running /\ <<st_pc, st_res>>' # <<st_pc, st_res>>)
       => /\ st_res' = "already_running"
          /\ st_pc' = "idle"
          /\ UNCHANGED <<is_running, pending_requests, tvars, message_loop,
                         loop_pc, strand>>]_vars

C6_Witness ==
  /\ st_res = "already_running" /\ is_running
  /\ pending_requests # {} /\ is_started /\ loop_pc = "reading"

\* C7: whenever a WaitForShutdown() on a started endpoint returns at once
\* because Shutdown() has cleared is_running_, the message loop is not
\* blocked in a receive.
C7_WaitReturnsAfterLoopExit ==
  (starts > 0 /\ WaitNotRunning) => loop_pc # "reading"

\* C8: a call that completes with a response has the response that carries
\* its own id, and when every call has completed with its response the table
\* is empty.
C8_ResponsesMatchCalls ==
  /\ \A c \in Callers :
       (IsCall(c) /\ pc[c] = "done" /\ result[c].kind = "ok")
         => result[c].id = id_of[c]
  /\ (\A c \in Callers : IsCall(c) /\ pc[c] = "done" /\ result[c].kind = "ok")
       => pending_requests = {}

\* Two calls were answered in the reverse of the order of their ids.
C8_Witness ==
  \E c, d \in Callers :
    /\ IsCall(c) /\ IsCall(d) /\ id_of[c] < id_of[d]
    /\ pc[c] = "done" /\ pc[d] = "done"
    /\ result[c].kind = "ok" /\ result[d].kind = "ok"
    /\ result[c].n > result[d].n
    /\ pending_requests = {}

\* C9: the ids obtained so far are pairwise distinct and are exactly
\* 0 .. n-1 for the n calls that have obtained one, at every moment: the
\* i-th id allocated is i-1.
C9_IdsCountFromZero ==
  LET A == {c \in Callers : IsCall(c)}
  IN /\ \A c, d \in A : c # d => id_of[c] # id_of[d]
     /\ {id_of[c] : c \in A} = 0..(Cardinality(A) - 1)
     /\ next_request_id = Cardinality(A)

C9_Witness ==
  \A c \in Callers : IsCall(c)

\* C10: the chunks of each message are contiguous on the wire.
C10_WireContiguous ==
  \A i, j \in 1..Len(wire) :
    (i < j /\ wire[i].m = wire[j].m) =>
       \A k \in i..j : wire[k].m = wire[i].m

\* The transport still holds message m: queued, or being written.
InFlight(m) ==
  \/ \E i \in 1..Len(send_queue) : send_queue[i] = m
  \/ cur.m = m
  \/ \E s \in Writers : sock_write[s].m = m

\* The message that SendMessage call c submitted to the transport.
Submitted(c) == {accepted[i] : i \in {j \in 1..Len(accepted) : accepted[j].src = c}}

\* C11: on a transport that is not closed, a SendMessage whose message the
\* transport has given up without writing all of its bytes has returned the
\* TransportError (it has not returned success).
C11_WriteErrorReturned ==
  \A c \in Callers : \A m \in Submitted(c) :
    (~is_closed /\ pc[c] = "done" /\ ~InFlight(m) /\ m \notin Received)
      => result[c] = TransportError

\* C12: on a pipe transport whose peer stays connected, a message of more
\* than one write unit for which SendMessage returned success is, once the
\* transport no longer holds it, on the wire in full, Close() or not.
C12_AcceptedIsDelivered ==
  \A c \in Callers : \A m \in Submitted(c) :
    (/\ kind = "pipe" /\ ~peer_gone /\ m.len > 1
     /\ pc[c] = "done" /\ result[c] = Ok /\ ~InFlight(m))
      => m \in Received


\* Caller c is inside SendNotification.
InNotification(c) ==
  \/ pc[c] = "nsend"
  \/ pc[c] = "writing" /\ sock_write[c].m.id = -1

\* C13: every step of a SendNotification (the is_running_ check, the send,
\* each write, the return, with success or with an error) leaves the table of
\* pending requests, the id counter and the strand's queue as they were, and
\* the notification's caller never has an id or an entry.
C13_NotificationLeavesTable ==
  /\ [][\A c \in Callers :
          (\/ InNotification(c) /\ pc'[c] # pc[c]
           \/ pc[c] = "idle" /\ pc'[c] = "nsend"
           \/ pc[c] = "idle" /\ pc'[c] = "done" /\ result'[c] = NotifyNotRunning)
            => UNCHANGED <<pending_requests, next_request_id, strand, id_of>>]_vars
  /\ [](\A c \in Callers : InNotification(c) => ~IsCall(c) /\ ~HasEntry(c))

\* A notification failed in the transport while a call was awaiting its
\* response: the table holds the call's entry alone and one id has been used.
C13_Witness ==
  \E c, d \in Callers :
    /\ pc[c] = "done" /\ ~IsCall(c) /\ result[c] = TransportError
    /\ HasEntry(d) /\ pc[d] = "sent"
    /\ Cardinality(pending_requests) = 1 /\ next_request_id = 1


\* A JSON value that is a Request object: an object with "jsonrpc" "2.0", a
\* string "method", "params" (if any) an array, object or null, and "id" (if
\* any) an integer or a string.  Without "id" it is a notification.
WellFormed(e) == FromJson(e).ok
IsNotification(e) == WellFormed(e) /\ e.id = NoId
IsMethodCall(e) == WellFormed(e) /\ e.id # NoId
NotNotification(e) == ~IsNotification(e)
\* The DispatchRequest call has returned.
Dispatched == reply # NoReply
\* The call was made with the JSON text of the single value e.
DispatchedSingle(e) == Dispatched /\ request_str = Single(e)

\* C14: for a non-empty batch, DispatchRequest returns no response when
\* every element is a well-formed notification, and otherwise an array with
\* one response per other element, in their order: the response to a
\* well-formed call carries its id, the response to a malformed element is
\* an InvalidRequest (-32600) error.
C14_BatchShape ==
  (Dispatched /\ request_str.valid /\ request_str.is_array
     /\ request_str.elems # <<>>) =>
    LET rest == SelectSeq(request_str.elems, NotNotification)
    IN IF rest = <<>>
         THEN reply.t = "nullopt"
         ELSE /\ reply.t = "array"
              /\ Len(reply.vs) = Len(rest)
              /\ \A i \in 1..Len(rest) :
                   IF WellFormed(rest[i])
                     THEN reply.vs[i].id = rest[i].id
                     ELSE /\ reply.vs[i].kind = "error"
                          /\ reply.vs[i].code = -32600

\* C15: DispatchRequest on the empty batch [] returns a single response, not
\* an array: the error -32600 "Invalid Request" with id null; no handler is
\* invoked.
C15_EmptyBatchRejected ==
  (Dispatched /\ request_str = Batch(<<>>)) =>
    /\ reply.t = "some"
    /\ reply.v.kind = "error"
    /\ reply.v.code = -32600
    /\ reply.v.id = NullId
    /\ reply.inv = <<>>

\* The empty batch was dispatched with handlers registered.
C15_Witness ==
  /\ Dispatched /\ request_str = Batch(<<>>)
  /\ \A m \in Methods : handlers[m] # NoHandler

\* C16: DispatchRequest on a well-formed call whose method has no
\* method-call handler (no handler at all, or a notification handler under
\* that name) returns the error -32601 MethodNotFound with the call's id.
C16_MethodNotFound ==
  \A e \in Elements :
    (DispatchedSingle(e) /\ IsMethodCall(e)
       /\ handlers[e.method].kind # "method") =>
      /\ reply.t = "some"
      /\ reply.v.kind = "error"
      /\ reply.v.code = -32601
      /\ reply.v.id = e.id

\* C17: DispatchRequest returns no response for a well-formed notification,
\* and for a batch of well-formed notifications, whatever is registered
\* under the methods: nothing, a notification handler (which may throw), or
\* a method-call handler.
C17_NotificationsUnanswered ==
  (Dispatched /\ request_str.valid /\ request_str.elems # <<>>
     /\ \A i \in 1..Len(request_str.elems) :
          IsNotification(request_str.elems[i]))
    => reply.t = "nullopt"

\* Two notifications were dispatched: one to a method registered with a
\* method-call handler, one to a notification handler that threw.
C17_Witness ==
  /\ Dispatched
  /\ request_str = Batch(<<Notification("sum"), Notification("log")>>)
  /\ handlers["sum"] = MethodCallHandler(FALSE)
  /\ handlers["log"] = NotificationHandler(TRUE)
  /\ reply.inv = <<"log">>

\* The text is a single well-formed call to a method whose registered
\* method-call handler throws.
FailingCall(body) ==
  /\ body.valid /\ ~body.is_array
  /\ IsMethodCall(body.elems[1])
  /\ handlers[body.elems[1].method] = MethodCallHandler(TRUE)

\* C18: a call whose method-call handler throws is answered with the error
\* -32603 InternalError carrying the call's id, which is handed to the
\* transport; the message loop does not end while the endpoint is running,
\* and once it has been spawned every text the peer sends is served.
C18_HandlerFailureIsAnswered ==
  /\ [](\A i \in 1..Len(served) :
          FailingCall(served[i].msg) =>
            /\ served[i].reply.t = "some"
            /\ served[i].reply.v.kind = "error"
            /\ served[i].reply.v.code = -32603
            /\ served[i].reply.v.id = served[i].msg.elems[1].id
            /\ served[i].submitted)
  /\ [](loop_pc = "done" => ~is_running)
  /\ <>[](loop_pc = "none" \/ Len(served) = inbound)

\* A call whose handler threw was answered, and the next text of the peer
\* was served and answered too.
C18_Witness ==
  /\ Len(served) = 2
  /\ FailingCall(served[1].msg) /\ served[1].submitted
  /\ served[2].reply.t \in {"some", "array"} /\ served[2].submitted

\* C19: the InternalError response to a call whose handler threw has a
\* "data" member in its error object, holding the exception's message.
C19_InternalErrorCarriesMessage ==
  \A e \in Elements :
    (DispatchedSingle(e) /\ FailingCall(request_str)) =>
      /\ reply.t = "some"
      /\ "data" \in reply.v.error_members
      /\ reply.v.data = handlers[e.method].what

\* C20: a text of the peer that is not valid JSON is passed to the
\* dispatcher, and the ParseError response (-32700, id null) is handed to
\* the transport.
C20_ParseErrorAnswered ==
  \A i \in 1..Len(served) :
    ~served[i].msg.valid =>
      /\ served[i].reply.t = "some"
      /\ served[i].reply.v.code = -32700
      /\ served[i].reply.v.id = NullId
      /\ served[i].submitted


\* C21: when the handler registered at the serving endpoint returns the
\* object {"error": {"code": -32000, "message": "Division by zero"}}, a
\* SendMethodCall that the serving endpoint has answered completes with the
\* ClientError "Division by zero", not with a result.
C21_ErrorObjectIsClientError ==
  \A c \in Callers :
    (/\ handlers["sum"] = ErrorObjectHandler
     /\ pc[c] = "done"
     /\ resolutions[c] > 0)
    => (/\ result[c].kind = "client_error"
        /\ result[c].msg = "Division by zero")

\* The shapes of a received message that is a response but not one for a
\* pending request.
Malformed(m) == m.kind # "text" /\ (~m.valid \/ m.id_t # "integer")
MissingId(m) == m \in {ResponseWithoutId(v) : v \in {"2.0", "absent"}}
\* The steps of the message loop on a received message.
HandleStep == loop_pc = "handle" /\ loop_pc' # "handle"
LookupStep == HeadIs("lookup") /\ strand' = Tail(strand)
ResolveStep == loop_pc = "resolve" /\ loop_pc' # "resolve"
NothingResolved ==
  /\ pending_requests' = pending_requests
  /\ pr' = pr
  /\ resolutions' = resolutions
NothingWritten ==
  /\ send_queue' = send_queue
  /\ sock_write' = sock_write
  /\ cur' = cur
  /\ wire' = wire
KeepsRunning == loop_pc' \notin {"none", "done"}

\* C22: handling a received response that fails validation, or has a
\* missing, null or string id, or has an integer id that is not in the
\* pending-request table, resolves no pending request, leaves the table
\* as it is, writes nothing to the transport and leaves the message loop
\* running.
C22_BadResponseDropped ==
  [][/\ (HandleStep /\ (Malformed(loop_msg) \/ MissingId(loop_msg)))
        => (NothingResolved /\ NothingWritten /\ KeepsRunning)
     /\ (LookupStep /\ Find(Head(strand).a) = {})
        => (NothingResolved /\ NothingWritten /\ loop_found' = NoCaller)
     /\ (ResolveStep /\ loop_found = NoCaller)
        => (NothingResolved /\ NothingWritten /\ KeepsRunning)]_vars

\* C23: while the endpoint is not running (never started, or shut down) and
\* no Shutdown() is in progress, no step gets a Shutdown() past its first
\* check: none is left in progress, the transport is not closed (again) and
\* no pending request is cancelled.
C23_ShutdownIdempotent ==
  [][(sd_pc = "idle" /\ ~is_running)
       => /\ sd_pc' = "idle"
          /\ UNCHANGED <<is_closed, is_connected, socket_open, send_queue>>
          /\ cancelled' = cancelled]_vars

\* A Shutdown() can be called when the endpoint was never started, and when
\* it has been shut down and its transport closed.
C23_Witness ==
  /\ sd_pc = "idle" /\ ~is_running
  /\ phase = "shutdown" /\ is_closed /\ cancelled # {}

\* C24: in every start/stop cycle on one endpoint, Start() is called on an
\* endpoint that is not running and makes it running; the Start() succeeds
\* unless the connection cannot be made; and when the Shutdown() of the
\* cycle has returned the endpoint is not running.
C24_CyclesRepeat ==
  [][/\ (st_pc = "idle" /\ st_pc' = "starting")
         => (~is_running /\ is_running')
     /\ (st_pc = "starting" /\ st_pc' = "idle")
         => /\ is_running'
            /\ st_res' = "ok" \/ TransportStartCheck = "connect"
     /\ (sd_pc # "idle" /\ sd_pc' = "idle")
         => ~is_running']_vars

\* C25: a transport Start() on a started transport returns the transport
\* error "already started", one on a transport that is closed returns a
\* transport error too, and neither changes the connection, the flags or
\* anything else of the transport.
C25_StartRejected ==
  [][(st_res' # st_res /\ (is_started \/ is_closed))
       => /\ st_res' = IF is_started THEN "already_started" ELSE "closed"
          /\ UNCHANGED tvars]_vars

C25_Witness ==
  /\ st_res = "already_started"
  /\ is_started /\ is_connected /\ socket_open /\ ~is_closed

\* C26: a SendMessage or ReceiveMessage called before a successful Start(),
\* or after Close() or CloseNow(), returns a transport error and the
\* transport is as it was: nothing is queued, written or read.
C26_WrongStateRejected ==
  [][(~is_started \/ is_closed)
       => /\ \A c \in Callers :
               (pc[c] = "idle" /\ pc'[c] # "idle")
                 => /\ pc'[c] = "done"
                    /\ result'[c] = TransportError
                    /\ UNCHANGED tvars
          /\ (loop_pc \in {"none", "retry"} /\
              <<loop_pc, loop_msg>>' # <<loop_pc, loop_msg>>)
                 => /\ loop_pc' = "retry"
                    /\ loop_msg' = TransportError
                    /\ UNCHANGED tvars]_vars

C26_Witness ==
  \E c, d \in Callers :
    /\ c # d
    /\ pc[c] = "done" /\ result[c] = TransportError
    /\ pc[d] = "done" /\ result[d] = Ok
    /\ loop_pc = "retry" /\ loop_msg = TransportError
    /\ is_started /\ is_closed /\ accepted # <<>>

C28_FrameRoundTrip ==
  rx_pc = "done"
    => /\ last.complete
       /\ last.message = payloads[1]
       /\ last.consumed_bytes = Len(Frame(payloads[1], DefaultContentType))
       /\ last.error = ""

C28_Witness ==
  /\ rx_pc = "done"
  /\ last.complete
  /\ Len(payloads[1]) = LongLen
  /\ payloads[1][1] = LF

IsPrefix(p, q) == Len(p) <= Len(q) /\ SubSeq(q, 1, Len(p)) = p

\* C29: whatever the chunks, the caller obtains the payloads in order and,
\* once the whole stream is delivered, all of them; a result that is not
\* complete has consumed_bytes 0 and no error; and after a complete result
\* the framer is in its initial state.
C29_ChunkedStream ==
  /\ IsPrefix(received, payloads)
  /\ (stream = <<>> /\ rx_pc = "idle") => received = payloads
  /\ ~last.complete => (last.consumed_bytes = 0 /\ last.error = "")
  /\ last.complete => framer = NewFramer

C29_Witness ==
  /\ stream = <<>> /\ rx_pc = "idle"
  /\ Len(payloads) = MaxMessages
  /\ received = payloads
  /\ payloads[1] = CRLF \o CRLF
  /\ Len(payloads[2]) = LongLen

\* C30: successive FramedPipeTransport::ReceiveMessage calls return the
\* framed messages the peer sent, each once and in order, however the byte
\* stream is delivered: no call fails, and the messages returned so far are
\* the first messages sent.
C30_EveryMessageInOrder ==
  /\ last.error = ""
  /\ IsPrefix(received, payloads)

\* The header lines of the first header block of a buffer, as the peer wrote
\* them.
RECURSIVE SplitLines(_)
SplitLines(str) ==
  IF FindIn(str, CRLF) = Npos THEN <<str>>
  ELSE <<Substr(str, 0, FindIn(str, CRLF))>>
         \o SplitLines(Substr(str, FindIn(str, CRLF) + 2, Len(str)))
HeadersOf(buf) == SplitLines(Substr(buf, 0, FindIn(buf, CRLF \o CRLF)))
IsLengthHeader(line) == StartsWith(line, ContentLengthName)
\* The value of a Content-Length header does not start, after white space
\* and a sign, with a digit.
NotAnInteger(line) ==
  LET t == SkipSpace(Substr(line, 15, Len(line)))
      u == IF t # <<>> /\ Head(t) \in {"+", "-"} THEN Tail(t) ELSE t
  IN u = <<>> \/ Head(u) \notin {"0", "1", "2", "3", "4", "5", "6", "7", "8", "9"}
\* TryDeframe is about to be called on the buffer, which holds a header
\* block that was not parsed before.
CallOnHeaderBlock ==
  /\ rx_pc = "deframe"
  /\ ~framer.header_complete
  /\ FindIn(buffer, CRLF \o CRLF) # Npos
MissingLength ==
  \A i \in 1..Len(HeadersOf(buffer)) : ~IsLengthHeader(HeadersOf(buffer)[i])
InvalidLength ==
  \E i \in 1..Len(HeadersOf(buffer)) :
    IsLengthHeader(HeadersOf(buffer)[i]) /\ NotAnInteger(HeadersOf(buffer)[i])

\* C31: a call of TryDeframe on a buffer that holds a complete header block
\* without a Content-Length header, or with one whose value is no integer,
\* reports "Missing Content-Length header" or "Invalid Content-Length
\* header", returns no message and consumes no bytes: the buffer and the
\* messages received are what they were.
C31_FatalHeaderError ==
  [][/\ (CallOnHeaderBlock /\ MissingLength) =>
          last' = DeframeResult(FALSE, <<>>, 0,
                                "Missing Content-Length header")
     /\ (CallOnHeaderBlock /\ InvalidLength) =>
          last' = DeframeResult(FALSE, <<>>, 0,
                                "Invalid Content-Length header")
     /\ (CallOnHeaderBlock /\ (MissingLength \/ InvalidLength)) =>
          (received' = received /\ buffer' = buffer)]_vars

\* A header block with a Content-Length of "a" and a body has arrived whole
\* and TryDeframe has reported it, the body still in the buffer.
C31_Witness ==
  /\ rx_pc = "idle" /\ InvalidLength
  /\ stream = <<>>
  /\ last.error = "Invalid Content-Length header"
  /\ buffer[Len(buffer)] = "a" /\ buffer[Len(buffer) - 1] = LF

\* C32: once a framed receive has failed on a header block without a usable
\* Content-Length, the transport is closed.
C32_FramingErrorCloses ==
  last.error # "" => is_closed

\* The violations of a request the specification names, in the order in
\* which they are looked for.
Violation(v) ==
  IF ~v.is_object THEN "Request must be a JSON object"
  ELSE IF v.jsonrpc # "2.0" THEN "Missing or invalid 'jsonrpc' version"
  ELSE IF v.method_t # "string" THEN "Missing or invalid 'method'"
  ELSE IF v.params_t \in {"string", "number", "boolean"}
    THEN "'params' must be object, array, or null"
  ELSE IF v.id.t \notin {"absent", "integer", "string"}
    THEN "Invalid 'id' type"
  ELSE ""

\* C33: Request::FromJson never throws; it returns the Request exactly on
\* the values without a violation, a notification when "id" is absent and a
\* call with the id unchanged otherwise, and on every other value the error
\* that names the violation.
C33_FromJsonTotal ==
  parsed # NotParsed =>
    LET v == request_str.elems[1]
    IN /\ ~parsed.throws
       /\ parsed.ok <=> Violation(v) = ""
       /\ ~parsed.ok => parsed.error = Violation(v)
       /\ parsed.ok =>
            /\ parsed.method = v.method
            /\ parsed.is_notification <=> v.id.t = "absent"
            /\ parsed.id = v.id

\* The elements of the batch that are answered, in the order of the batch.
Answered ==
  LET elems == request_str.elems
  IN {i \in 1..Len(elems) : DispatchSingleRequestInner(elems[i]).t = "some"}
\* The position in the batch of the k-th element that is answered.
RECURSIVE NthAnswered(_)
NthAnswered(k) ==
  IF k = 1 THEN CHOOSE i \in Answered : \A j \in Answered : i <= j
  ELSE CHOOSE i \in Answered :
         /\ i > NthAnswered(k - 1)
         /\ \A j \in Answered : j > NthAnswered(k - 1) => i <= j

\* C34: the array returned for a batch holds one response for each element
\* that is answered, the k-th response being the one of the k-th such
\* element of the batch.
C34_BatchOrder ==
  (request_str.valid /\ request_str.is_array /\ reply.t = "array") =>
    /\ Len(reply.vs) = Cardinality(Answered)
    /\ \A k \in 1..Len(reply.vs) :
         reply.vs[k] =
           DispatchSingleRequestInner(request_str.elems[NthAnswered(k)]).v

\* A batch of two calls with different ids has been answered by two
\* results.
C34_Witness ==
  /\ request_str.valid /\ request_str.is_array /\ reply.t = "array"
  /\ Len(request_str.elems) = 2 /\ Len(reply.vs) = 2
  /\ request_str.elems[1].id = IntId(1) /\ request_str.elems[2].id = IntId(2)
  /\ reply.vs[1].kind = "result" /\ reply.vs[1].id = IntId(1)
  /\ reply.vs[2].kind = "result" /\ reply.vs[2].id = IntId(2)

\* HandleResponse has looked up the id of the response in hand, which is the
\* id of the call of c, and no response and no cancellation has resolved
\* that call before.
FirstResponseLookedUp(c) ==
  /\ loop_pc = "resolve" /\ HeadIs("loop")
  /\ IsCall(c) /\ loop_msg.id = id_of[c]
  /\ resolutions[c] = 0 /\ c \notin cancelled

HandlerCallAnswered ==
  /\ loop_pc = "handler"
  /\ id_of[HandlerCaller] >= 0
  /\ \E i \in 1..Len(inbox) :
       inbox[i].kind # "text" /\ inbox[i].id = id_of[HandlerCaller]

\* C36: a handler that awaits SendMethodCall on its own endpoint completes
\* once the peer has answered: the message loop goes on receiving and
\* resolving responses while the handler runs.
C36_HandlerCompletes ==
  HandlerCallAnswered ~> (pc[HandlerCaller] = "done")

\* Shutdown() has cancelled the pending requests and cleared the table.
ShutdownCleared == phase = "shutdown" /\ sd_pc # "posted"

\* C37: once Shutdown() has cancelled and cleared the pending-request table,
\* the table stays empty: a SendMethodCall that runs concurrently installs
\* no entry after it.
C37_TableStaysEmpty ==
  ShutdownCleared => pending_requests = {}

\* Start() has returned the error of the transport's Start().
StartFailed == st_pc = "idle" /\ st_res = "transport_error"

\* C38: when the transport fails to start inside Start(), Start() returns
\* that error and leaves the endpoint not running: IsRunning() is false and
\* no message loop was spawned.
C38_FailedStartNotRunning ==
  (StartFailed /\ phase = "started") => (~is_running /\ ~message_loop)

\* C39: transport state is a monotone progression: is_closed once set is
\* never reset, and a closed transport is not connected, also when it was
\* closed while its connect or accept was in flight.
C39_ClosedNotConnected ==
  is_closed => ~is_connected

\* The Content-Length the header block at the start of the buffer declares,
\* and the size of that block with its empty line.
DeclaredLength ==
  Stoi(Substr(buffer, 15, FindIn(buffer, CRLF) - 15)).value
HeaderSize == FindIn(buffer, CRLF \o CRLF) + 4

\* C40: a call of TryDeframe that returns a complete result returns a
\* message of as many bytes as the Content-Length declares and consumes the
\* header block and the message, for every integer the header can carry,
\* negative ones and ones followed by other characters included.
C40_CompleteSizes ==
  [][(rx_pc = "deframe" /\ last'.complete) =>
       /\ Len(last'.message) = DeclaredLength
       /\ last'.consumed_bytes = HeaderSize + Len(last'.message)]_vars

=============================================================================
